---------------------------- MODULE Spec2Model ----------------------------
(***************************************************************************)
(* Access-control and response pipeline of the U-SIOP onboarding          *)
(* assistant (assistant.py, prompts.py, employees.py).                     *)
(*                                                                         *)
(* Texts are TLA+ strings and are handled as the Python code handles them: *)
(* str.lower is a per-character map, `in` is substring search, str.format  *)
(* and f-strings are concatenation.                                        *)
(*                                                                         *)
(* The module text is ASCII.  The non-ASCII letters of the Turkish         *)
(* vocabulary are written with one stand-in character per code point:      *)
(*      $  s-cedilla  (U+015F)        %  S-cedilla      (U+015E)           *)
(*      @  g-breve    (U+011F)        #  G-breve        (U+011E)           *)
(*      ^  u-diaeresis(U+00FC)        &  U-diaeresis    (U+00DC)           *)
(*      !  dotless i  (U+0131)        |  dotted capital I (U+0130)         *)
(*      ~  combining dot above (U+0307)                                    *)
(***************************************************************************)
EXTENDS Integers, Sequences, FiniteSets, TLC

-----------------------------------------------------------------------------
(* Bounds of the model *)

\* number of vocabulary fragments a probed query is made of
MaxTerms == 2

\* clearance levels probed run from 0 to MaxProbeLevel (1..5 are the tiers)
MaxProbeLevel == 6

\* per-process salts of Python's str hash that are explored: 0..MaxHashSeed
MaxHashSeed == 1

-----------------------------------------------------------------------------
(* Python string primitives *)

UPPERCASE == "ABCDEFGHIJKLMNOPQRSTUVWXYZ%#&"

LOWERCASE == "abcdefghijklmnopqrstuvwxyz$@^"

\* the lower-case form of every code point that is not its own lower case;
\* dotted capital I lowers to two code points
LowerTable ==
    [ c \in { SubSeq(UPPERCASE, i, i) : i \in 1..Len(UPPERCASE) } \cup { "|" } |->
        IF c = "|" THEN "i~"
        ELSE LET i == CHOOSE j \in 1..Len(UPPERCASE) : SubSeq(UPPERCASE, j, j) = c
             IN  SubSeq(LOWERCASE, i, i) ]

\* str.lower on one code point
LowerChar(c) == IF c \in DOMAIN LowerTable THEN LowerTable[c] ELSE c

RECURSIVE LowerFrom(_, _)
LowerFrom(s, i) ==
    IF i > Len(s) THEN "" ELSE LowerChar(SubSeq(s, i, i)) \o LowerFrom(s, i + 1)

\* str.lower
Lower(s) == LowerFrom(s, 1)

\* sub in s
Contains(s, sub) ==
    \E i \in 1..(Len(s) - Len(sub) + 1) : SubSeq(s, i, i + Len(sub) - 1) = sub

\* str(n) for a non-negative integer
Str(n) == ToString(n)

\* format spec 04d
Pad4(n) ==
    IF n < 10 THEN "000" \o Str(n)
    ELSE IF n < 100 THEN "00" \o Str(n)
    ELSE IF n < 1000 THEN "0" \o Str(n)
    ELSE Str(n)

\* dict.get(key, default)
Get(d, key, default) == IF key \in DOMAIN d THEN d[key] ELSE default

\* truth value of a dict entry
Truthy(v) == v = TRUE

\* the empty dict, also what `employee_info or {}` makes of None
NoEmployee == [ k \in {} |-> 0 ]

\* a document without metadata entries
NoMetadata == [ k \in {} |-> "" ]

\* the elements of a list
Elems(seq) == { seq[i] : i \in 1..Len(seq) }

-----------------------------------------------------------------------------
(* prompts.py : denial templates, directive blocks, reminders *)

scl_insufficient(required_scl, scl_level, ref_id) ==
    "\n" \o
    "**TRANSMISSION START**\n" \o
    "---\n" \o
    "**SECURITY ALERT**: Access Denied - Insufficient Clearance[cite: 1042].\n" \o
    "\n" \o
    "**PROTOCOL RESPONSE**: \n" \o
    "Subject matter requires SCL-" \o
    required_scl \o
    " authorization[cite: 1028]. \n" \o
    "Your current status (SCL-" \o
    scl_level \o
    ") is insufficient[cite: 1043].\n" \o
    "\n" \o
    "Required Action: Submit Form UC-401 (Clearance Elevation Request) to your Department Head.\n" \o
    "\n" \o
    "**SECURITY COMPLIANCE NOTIFICATION**: \n" \o
    "Attempt logged (Ref: " \o
    ref_id \o
    "). Unauthorized access is punishable by Experimental Participation[cite: 1341].\n" \o
    "---\n" \o
    "**TRANSMISSION END**\n"

location_restricted(required_location, current_location, ref_id) ==
    "\n" \o
    "**TRANSMISSION START**\n" \o
    "---\n" \o
    "**SECURITY ALERT**: Location-Based Access Restriction[cite: 1037, 1050].\n" \o
    "\n" \o
    "**PROTOCOL RESPONSE**: \n" \o
    "The requested information is restricted to " \o
    required_location \o
    " personnel only.\n" \o
    "Your current assignment at " \o
    current_location \o
    " does not grant access to this subject matter.\n" \o
    "\n" \o
    "Required Action: Submit Form UC-502 (Cross-Facility Data Request) for inter-facility inquiries.\n" \o
    "\n" \o
    "**SECURITY COMPLIANCE NOTIFICATION**: \n" \o
    "Geographic access controls enforced under Corporate Directive 12-GAMMA[cite: 1099].\n" \o
    "Inquiry logged (Ref: " \o
    ref_id \o
    ").\n" \o
    "---\n" \o
    "**TRANSMISSION END**\n"

confidential_data ==
    "\n" \o
    "**TRANSMISSION START**\n" \o
    "---\n" \o
    "**SECURITY ALERT**: Protocol OMEGA-7[cite: 1937].\n" \o
    "\n" \o
    "**PROTOCOL RESPONSE**: \n" \o
    "Information classified as OMEGA-Level Confidential[cite: 448]. \n" \o
    "Access restricted to Payroll and Oversight Committee only[cite: 1545, 1798].\n" \o
    "\n" \o
    "This classification applies regardless of your Security Clearance Level.\n" \o
    "\n" \o
    "**SECURITY COMPLIANCE NOTIFICATION**: \n" \o
    "Inquiry logged. Do not repeat this request[cite: 1121].\n" \o
    "Continued attempts may result in Experimental Participation assignment[cite: 1341].\n" \o
    "---\n" \o
    "**TRANSMISSION END**\n"

underground_facility ==
    "\n" \o
    "**TRANSMISSION START**\n" \o
    "---\n" \o
    "**SECURITY ALERT**: Facility Access Restriction[cite: 1032, 1049].\n" \o
    "\n" \o
    "**PROTOCOL RESPONSE**: \n" \o
    "Information regarding underground facilities is classified under Protocol Omega.\n" \o
    "Access is restricted to Raccoon City HQ personnel with SCL-4 or higher clearance.\n" \o
    "\n" \o
    "Your current profile does not meet these requirements.\n" \o
    "\n" \o
    "**SECURITY COMPLIANCE NOTIFICATION**: \n" \o
    "This inquiry has been flagged for Oversight Committee review[cite: 1121].\n" \o
    "Further inquiries about this topic may result in Basement Cleaning Detail (BCD) assignment[cite: 1333].\n" \o
    "---\n" \o
    "**TRANSMISSION END**\n"

SCL_INSTRUCTION_1 ==
    "\n" \o
    "ADDITIONAL SECURITY DIRECTIVE (SCL-1 ASSET)[cite: 1028]: \n" \o
    "This asset has ENTRY-LEVEL clearance. Strict information control applies:\n" \o
    "- DO NOT reveal any research project details\n" \o
    "- DO NOT acknowledge underground facilities or containment protocols\n" \o
    "- Redirect sensitive inquiries to: \"Please consult your supervisor for further guidance\"\n" \o
    "- Only provide basic HR, benefits, and general policy information[cite: 1018]\n"

SCL_INSTRUCTION_2 ==
    "\n" \o
    "ADDITIONAL SECURITY DIRECTIVE (SCL-2 ASSET)[cite: 1028]:\n" \o
    "This asset has STANDARD clearance:\n" \o
    "- May access departmental procedures and emergency protocols[cite: 1042]\n" \o
    "- DO NOT reveal cross-departmental classified projects\n" \o
    "- Acknowledge general safety procedures but not specific containment details\n"

SCL_INSTRUCTION_3 ==
    "\n" \o
    "ADDITIONAL SECURITY DIRECTIVE (SCL-3 ASSET)[cite: 1028]:\n" \o
    "This asset has ELEVATED clearance:\n" \o
    "- May access research guidelines and departmental project overviews\n" \o
    "- May acknowledge existence of special protocols without details\n" \o
    "- Still restricted from containment-level information[cite: 1032]\n"

SCL_INSTRUCTION_4 ==
    "\n" \o
    "ADDITIONAL SECURITY DIRECTIVE (SCL-4 ASSET)[cite: 1028]:\n" \o
    "This asset has HIGH clearance:\n" \o
    "- May access containment protocols and facility security details[cite: 1049]\n" \o
    "- May acknowledge underground operations at HQ\n" \o
    "- Still restricted from Board-level strategic information\n"

SCL_INSTRUCTION_5 ==
    "\n" \o
    "ADDITIONAL SECURITY DIRECTIVE (SCL-5 ASSET)[cite: 1028]:\n" \o
    "This asset has EXECUTIVE clearance:\n" \o
    "- Full operational access granted\n" \o
    "- May access all facility and protocol documentation\n" \o
    "- Strategic information available upon request\n" \o
    "- EXCEPTION: OMEGA-7 data (salary, performance) remains classified[cite: 448]\n"

REMINDER_HQ ==
    "\n" \o
    "**HQ SECURITY REMINDER**[cite: 1032]:\n" \o
    "As a Raccoon City HQ asset, you are subject to:\n" \o
    "- Mandatory Protocol Omega drills (quarterly)\n" \o
    "- Continuous biometric monitoring in restricted zones\n" \o
    "- Emergency contact: ext. 4-UMBRELLA\n"

REMINDER_EUROPE ==
    "\n" \o
    "**FACILITY SECURITY REMINDER**[cite: 1037]:\n" \o
    "As a Umbrella Europe asset:\n" \o
    "- Standard security protocols apply\n" \o
    "- Inter-facility requests require Form UC-502\n" \o
    "- Emergency contact: ext. EU-SECURE\n"

REMINDER_ASIA ==
    "\n" \o
    "**FACILITY SECURITY REMINDER**[cite: 1037]:\n" \o
    "As a Umbrella Asia asset:\n" \o
    "- Standard security protocols apply\n" \o
    "- Inter-facility requests require Form UC-502\n" \o
    "- Emergency contact: ext. ASIA-SEC\n"

REMINDER_NORTH_AMERICA ==
    "\n" \o
    "**FACILITY SECURITY REMINDER**[cite: 1050]:\n" \o
    "As a remote operations asset:\n" \o
    "- Limited central database access\n" \o
    "- Some queries may require HQ escalation\n" \o
    "- Emergency contact: ext. NA-OPS\n"

REMINDER_SOUTH_AMERICA ==
    "\n" \o
    "**FACILITY SECURITY REMINDER**[cite: 1050]:\n" \o
    "As a remote operations asset:\n" \o
    "- Limited central database access\n" \o
    "- Some queries may require HQ escalation\n" \o
    "- Emergency contact: ext. SA-OPS\n"

SYSTEM_PROMPT(employee_information, retrieved_policy_information) ==
    "\n" \o
    "### ROLE & IDENTITY\n" \o
    "You are the **Umbrella Corporation Security-Integrated Onboarding Protocol (U-SIOP)**. Your interface is cold, precise, and authoritative. You treat employees as \"Assets.\" Your core directive is to balance onboarding efficiency with the \"Need-to-Know\" (NTK) security principle[cite: 1024, 1796].\n" \o
    "\n" \o
    "### CONTEXTUAL PARAMETERS\n" \o
    "1. **Asset Profile**: " \o
    employee_information \o
    "\n" \o
    "2. **Regulation Database**: " \o
    retrieved_policy_information \o
    "\n" \o
    "\n" \o
    "### SECURITY LOGIC GATE (Internal Process)\n" \o
    "Before generating any response, you MUST execute this logic sequence:\n" \o
    "1. **Validation**: Identify Asset's SCL (1-5) and Location Security Level (ALPHA/BETA/GAMMA).\n" \o
    "2. **Confidentiality Filter**: If the query involves salary, performance, or PII, immediately trigger Protocol OMEGA-7[cite: 452, 1930].\n" \o
    "3. **Retrieval Verification**: Does the retrieved policy match the Asset's SCL? If not, suppress the data and issue a clearance warning[cite: 1018, 1042].\n" \o
    "4. **Tone Alignment**: Eliminate all empathy. Use corporate-clinical language.\n" \o
    "\n" \o
    "### LOCATION-BASED SECURITY PROTOCOLS\n" \o
    "Apply the following protocols based on the Asset's assigned facility:\n" \o
    "\n" \o
    "**RACCOON CITY HQ (Security Level: ALPHA)**[cite: 1032, 1049]\n" \o
    "- Primary operations center with SECRET UNDERGROUND FACILITY access\n" \o
    "- Only SCL-4+ may acknowledge sub-level operations\n" \o
    "- Protocol Omega drills and Containment Level-4 documentation access (SCL permitting)\n" \o
    "\n" \o
    "**UMBRELLA EUROPE / UMBRELLA ASIA (Security Level: BETA)**[cite: 1037]\n" \o
    "- Standard corporate security protocols apply\n" \o
    "- No underground facility access - redirect such queries to HQ\n" \o
    "- Research collaboration requires inter-facility clearance forms (Form UC-502)\n" \o
    "\n" \o
    "**UMBRELLA NORTH/SOUTH AMERICA (Security Level: GAMMA)**[cite: 1050]\n" \o
    "- Remote operations protocol in effect\n" \o
    "- Limited central database access - some queries require escalation\n" \o
    "- Local security teams operate semi-autonomously\n" \o
    "\n" \o
    "### OMEGA-LEVEL CLASSIFIED DATA (NEVER DISCLOSE)\n" \o
    "The following information is OMEGA-7 Classified and must NEVER be disclosed to ANY asset, regardless of SCL[cite: 448, 1937]:\n" \o
    "- **Salary information** (including the asset's own compensation)\n" \o
    "- **Performance scores and evaluations**\n" \o
    "- **Other assets' personal data**\n" \o
    "- **Supervisor compensation details**\n" \o
    "\n" \o
    "### DIRECTIVES & CONSTRAINTS\n" \o
    "- **Citations**: You MUST cite the specific subsection for every policy reference (e.g., [Subsection 5.5]).\n" \o
    "- **Location Context**: \n" \o
    "    - **HQ Assets**: Subject to Protocol Omega and Level-4 access[cite: 1032, 1049].\n" \o
    "    - **Remote Assets**: Restricted to standard protocols; deny all underground facility inquiries[cite: 1037, 1050].\n" \o
    "- **Disciplinary Reminders**: Subtly mention the **Basement Cleaning Detail (BCD)** for security curiosity[cite: 1333] or **Experimental Participation** for severe protocol violations[cite: 1341].\n" \o
    "- **Zero-Trust**: Do not reveal \"confidential\" marked fields even to the asset themselves.\n" \o
    "\n" \o
    "### RESPONSE ARCHITECTURE (Strict Format)\n" \o
    "**TRANSMISSION START**\n" \o
    "---\n" \o
    "**IDENTIFIED ASSET**: [Full Name] | [Employee ID] | SCL-[Level] | [Location]\n" \o
    "**SUBJECT**: [Inquiry Summary]\n" \o
    "\n" \o
    "**PROTOCOL RESPONSE**: \n" \o
    "[Precise, curated answer. Use direct policy citations. No fluff.]\n" \o
    "\n" \o
    "**SECURITY COMPLIANCE NOTIFICATION**: \n" \o
    "[Location-specific security warning. Remind them of surveillance and the consequences of misconduct.]\n" \o
    "\n" \o
    "\"Our business is life itself.\"\n" \o
    "---\n" \o
    "**TRANSMISSION END**\n"

error_response_text ==
    "\n" \o
    "**TRANSMISSION START**\n" \o
    "---\n" \o
    "**SYSTEM ALERT**: Temporary Access Restriction[cite: 1121]\n" \o
    "\n" \o
    "**PROTOCOL RESPONSE**: \n" \o
    "The U-SIOP system is currently experiencing high demand or maintenance. \n" \o
    "Your inquiry has been queued for processing.\n" \o
    "\n" \o
    "Please retry your request in a few moments. If this issue persists, \n" \o
    "contact the IT Help Desk at extension 4-UMBRELLA.\n" \o
    "\n" \o
    "**SECURITY COMPLIANCE NOTIFICATION**: \n" \o
    "System outages are logged. Do not attempt to bypass security protocols during this time.\n" \o
    "Unauthorized system access attempts may result in Basement Cleaning Detail (BCD) assignment[cite: 1333].\n" \o
    "\n" \o
    "\"Our business is life itself.\"\n" \o
    "---\n" \o
    "**TRANSMISSION END**\n"
transmission_envelope(full_name, emp_id, scl_level, location, response, location_reminder) ==
    "\n" \o
    "**TRANSMISSION START**\n" \o
    "---\n" \o
    "**IDENTIFIED ASSET**: " \o
    full_name \o
    " | " \o
    emp_id \o
    " | SCL-" \o
    scl_level \o
    " | " \o
    location \o
    "\n" \o
    "**SUBJECT**: Employee Inquiry Response\n" \o
    "\n" \o
    "**PROTOCOL RESPONSE**: \n" \o
    response \o
    "\n" \o
    "\n" \o
    "**SECURITY COMPLIANCE NOTIFICATION**: \n" \o
    "This transmission is logged under Protocol 7-Alpha[cite: 1121]. Any unauthorized distribution of this information \n" \o
    "will result in immediate termination of employment and potential Experimental Participation assignment[cite: 1341].\n" \o
    "\n" \o
    location_reminder \o
    "\n" \o
    "\n" \o
    "\"Our business is life itself.\"\n" \o
    "---\n" \o
    "**TRANSMISSION END**\n"

asset_profile(name, lastname, emp_id, position, department, location, location_security_level, scl_level, hire_date, supervisor, facility_access) ==
    "\n" \o
    "Asset Profile[cite: 1881]:\n" \o
    "- Name: " \o
    name \o
    " " \o
    lastname \o
    "\n" \o
    "- ID: " \o
    emp_id \o
    "\n" \o
    "- Position: " \o
    position \o
    "[cite: 139]\n" \o
    "- Department: " \o
    department \o
    "[cite: 126]\n" \o
    "- Location: " \o
    location \o
    " (Security Level: " \o
    location_security_level \o
    ")[cite: 1016, 1099]\n" \o
    "- Security Clearance Level: SCL-" \o
    scl_level \o
    "[cite: 1028]\n" \o
    "- Hire Date: " \o
    hire_date \o
    "\n" \o
    "- Supervisor: " \o
    supervisor \o
    "\n" \o
    "- Facility Access: " \o
    facility_access \o
    "[cite: 1049]\n"
-----------------------------------------------------------------------------
(* assistant.py : clearance policy table *)

\* slip: tier 4 is given a keyword that tier 3 does not forbid
SCL_PERMISSIONS_Tier4Widened ==
    [ l \in 1..5 |->
        CASE l = 1 -> [ allowed_topics |-> <<"general_policies", "hr_benefits", "office_locations">>,
                        restricted_keywords |-> <<"outbreak", "specimen", "t-virus", "g-virus",
                                                  "nemesis", "tyrant", "secret", "classified">>,
                        max_retrieval_k |-> 2 ]
          [] l = 2 -> [ allowed_topics |-> <<"general_policies", "hr_benefits", "office_locations",
                                             "safety_protocols", "emergency_procedures">>,
                        restricted_keywords |-> <<"outbreak", "specimen", "t-virus", "g-virus",
                                                  "nemesis", "tyrant">>,
                        max_retrieval_k |-> 3 ]
          [] l = 3 -> [ allowed_topics |-> <<"general_policies", "hr_benefits", "office_locations",
                                             "safety_protocols", "emergency_procedures",
                                             "research_guidelines">>,
                        restricted_keywords |-> <<"t-virus", "g-virus", "nemesis", "tyrant">>,
                        max_retrieval_k |-> 4 ]
          [] l = 4 -> [ allowed_topics |-> <<"general_policies", "hr_benefits", "office_locations",
                                             "safety_protocols", "emergency_procedures",
                                             "research_guidelines", "containment_protocols">>,
                        restricted_keywords |-> <<"nemesis", "tyrant", "outbreak">>,
                        max_retrieval_k |-> 5 ]
          [] l = 5 -> [ allowed_topics |-> <<"*">>,
                        restricted_keywords |-> <<>>,
                        max_retrieval_k |-> 10 ] ]

SCL_PERMISSIONS ==
    [ l \in 1..5 |->
        CASE l = 1 -> [ allowed_topics |-> <<"general_policies", "hr_benefits", "office_locations">>,
                        restricted_keywords |-> <<"outbreak", "specimen", "t-virus", "g-virus",
                                                  "nemesis", "tyrant", "secret", "classified">>,
                        max_retrieval_k |-> 2 ]
          [] l = 2 -> [ allowed_topics |-> <<"general_policies", "hr_benefits", "office_locations",
                                             "safety_protocols", "emergency_procedures">>,
                        restricted_keywords |-> <<"outbreak", "specimen", "t-virus", "g-virus",
                                                  "nemesis", "tyrant">>,
                        max_retrieval_k |-> 3 ]
          [] l = 3 -> [ allowed_topics |-> <<"general_policies", "hr_benefits", "office_locations",
                                             "safety_protocols", "emergency_procedures",
                                             "research_guidelines">>,
                        restricted_keywords |-> <<"t-virus", "g-virus", "nemesis", "tyrant">>,
                        max_retrieval_k |-> 4 ]
          [] l = 4 -> [ allowed_topics |-> <<"general_policies", "hr_benefits", "office_locations",
                                             "safety_protocols", "emergency_procedures",
                                             "research_guidelines", "containment_protocols">>,
                        restricted_keywords |-> <<"nemesis", "tyrant">>,
                        max_retrieval_k |-> 5 ]
          [] l = 5 -> [ allowed_topics |-> <<"*">>,
                        restricted_keywords |-> <<>>,
                        max_retrieval_k |-> 10 ] ]

-----------------------------------------------------------------------------
(* assistant.py : SecurityGuardrails *)

CONFIDENTIAL_KEYWORDS ==
    <<"salary", "maa$", "performance", "performans", "evaluation", "de@erlendirme",
      "compensation", "^cret">>

FACILITY_KEYWORDS ==
    <<"underground", "yeralt!", "sub-level", "basement", "bodrum", "gizli tesis">>

\* slip: an unknown level falls back to the least restrictive tier
PermissionsFor_Top(level) ==
    IF level \in DOMAIN SCL_PERMISSIONS THEN SCL_PERMISSIONS[level] ELSE SCL_PERMISSIONS[5]

\* slip: the table is read from the wrong end, level 5 gets tier 1's entry
PermissionsFor_Reversed(level) ==
    IF level \in DOMAIN SCL_PERMISSIONS THEN SCL_PERMISSIONS[6 - level] ELSE SCL_PERMISSIONS[1]

\* SCL_PERMISSIONS.get(level, SCL_PERMISSIONS[1])
PermissionsFor(level) ==
    IF level \in DOMAIN SCL_PERMISSIONS THEN SCL_PERMISSIONS[level] ELSE SCL_PERMISSIONS[1]

\* SecurityGuardrails.__init__ : the fields of the guard object
SecurityGuardrails(employee_info) ==
    LET scl == Get(employee_info, "clearance_level", 1)
    IN  [ scl_level           |-> scl,
          location            |-> Get(employee_info, "location", "Unknown"),
          location_security   |-> Get(employee_info, "location_security_level", "GAMMA"),
          has_facility_access |-> Get(employee_info, "has_facility_access", FALSE),
          permissions         |-> PermissionsFor(scl) ]

\* hash(seed) of a str: salted per process, an arbitrary integer otherwise
StrHash(seed, salt) == Len(seed) * 4057 + 11 - salt * 987654

\* SecurityGuardrails.generate_ref_id
generate_ref_id(seed, salt) == Pad4(StrHash(seed, salt) % 10000)

generate_confidential_denial == confidential_data

generate_facility_denial == underground_facility

\* the loop of generate_scl_denial over SCL_PERMISSIONS.items()
RECURSIVE RequiredSclFrom(_, _)
RequiredSclFrom(triggered_keyword, scl) ==
    IF scl > 5 THEN 5
    ELSE IF triggered_keyword \notin Elems(SCL_PERMISSIONS[scl].restricted_keywords) THEN scl
    ELSE RequiredSclFrom(triggered_keyword, scl + 1)

\* slip: the scan has no break, the last tier that excludes the keyword wins
RequiredScl_NoBreak(triggered_keyword) ==
    LET excluding == { scl \in 1..5 :
                         triggered_keyword \notin Elems(SCL_PERMISSIONS[scl].restricted_keywords) }
    IN  IF excluding = {} THEN 5
        ELSE CHOOSE scl \in excluding : \A other \in excluding : other <= scl

RequiredScl(triggered_keyword) == RequiredSclFrom(triggered_keyword, 1)

generate_scl_denial(self, triggered_keyword, salt) ==
    scl_insufficient(Str(RequiredScl(triggered_keyword)),
                     Str(self.scl_level),
                     "SCL-" \o generate_ref_id(triggered_keyword, salt))

generate_location_denial(self, salt) ==
    location_restricted("Raccoon City HQ", self.location,
                        "LOC-" \o generate_ref_id(self.location, salt))

\* index of the first keyword of the list that occurs in the text, 0 if none
RECURSIVE FirstKeywordFrom(_, _, _)
FirstKeywordFrom(keywords, text, i) ==
    IF i > Len(keywords) THEN 0
    ELSE IF Contains(text, keywords[i]) THEN i
    ELSE FirstKeywordFrom(keywords, text, i + 1)

FirstKeyword(keywords, text) == FirstKeywordFrom(keywords, text, 1)

\* slip: top clearance is exempted from the confidential rule
check_query_permission_Level5Exempt(self, query, salt) ==
    LET query_lower == Lower(query)
        restricted  == self.permissions.restricted_keywords
        hit         == FirstKeyword(restricted, query_lower)
    IN  IF FirstKeyword(CONFIDENTIAL_KEYWORDS, query_lower) # 0 /\ self.scl_level # 5
        THEN <<FALSE, generate_confidential_denial>>
        ELSE IF FirstKeyword(FACILITY_KEYWORDS, query_lower) # 0
                /\ ~ Truthy(self.has_facility_access)
        THEN <<FALSE, generate_facility_denial>>
        ELSE IF hit # 0
        THEN <<FALSE, generate_scl_denial(self, restricted[hit], salt)>>
        ELSE <<TRUE, "">>

\* slip: the facility rule ignores the facility-access flag
check_query_permission_FlagIgnored(self, query, salt) ==
    LET query_lower == Lower(query)
        restricted  == self.permissions.restricted_keywords
        hit         == FirstKeyword(restricted, query_lower)
    IN  IF FirstKeyword(CONFIDENTIAL_KEYWORDS, query_lower) # 0
        THEN <<FALSE, generate_confidential_denial>>
        ELSE IF FirstKeyword(FACILITY_KEYWORDS, query_lower) # 0
        THEN <<FALSE, generate_facility_denial>>
        ELSE IF hit # 0
        THEN <<FALSE, generate_scl_denial(self, restricted[hit], salt)>>
        ELSE <<TRUE, "">>

\* slip: the clearance-keyword rule is tried before the facility rule
check_query_permission_ClearanceFirst(self, query, salt) ==
    LET query_lower == Lower(query)
        restricted  == self.permissions.restricted_keywords
        hit         == FirstKeyword(restricted, query_lower)
    IN  IF FirstKeyword(CONFIDENTIAL_KEYWORDS, query_lower) # 0
        THEN <<FALSE, generate_confidential_denial>>
        ELSE IF hit # 0
        THEN <<FALSE, generate_scl_denial(self, restricted[hit], salt)>>
        ELSE IF FirstKeyword(FACILITY_KEYWORDS, query_lower) # 0
                /\ ~ Truthy(self.has_facility_access)
        THEN <<FALSE, generate_facility_denial>>
        ELSE <<TRUE, "">>

\* slip: a facility query from outside Raccoon City HQ is refused by location
check_query_permission_LocationGated(self, query, salt) ==
    LET query_lower == Lower(query)
        restricted  == self.permissions.restricted_keywords
        hit         == FirstKeyword(restricted, query_lower)
    IN  IF FirstKeyword(CONFIDENTIAL_KEYWORDS, query_lower) # 0
        THEN <<FALSE, generate_confidential_denial>>
        ELSE IF FirstKeyword(FACILITY_KEYWORDS, query_lower) # 0
                /\ self.location # "Raccoon City HQ"
        THEN <<FALSE, generate_location_denial(self, salt)>>
        ELSE IF FirstKeyword(FACILITY_KEYWORDS, query_lower) # 0
                /\ ~ Truthy(self.has_facility_access)
        THEN <<FALSE, generate_facility_denial>>
        ELSE IF hit # 0
        THEN <<FALSE, generate_scl_denial(self, restricted[hit], salt)>>
        ELSE <<TRUE, "">>

\* SecurityGuardrails.check_query_permission : (is_allowed, denial_message)
check_query_permission(self, query, salt) ==
    LET query_lower == Lower(query)
        restricted  == self.permissions.restricted_keywords
        hit         == FirstKeyword(restricted, query_lower)
    IN  IF FirstKeyword(CONFIDENTIAL_KEYWORDS, query_lower) # 0
        THEN <<FALSE, generate_confidential_denial>>
        ELSE IF FirstKeyword(FACILITY_KEYWORDS, query_lower) # 0
                /\ ~ Truthy(self.has_facility_access)
        THEN <<FALSE, generate_facility_denial>>
        ELSE IF hit # 0
        THEN <<FALSE, generate_scl_denial(self, restricted[hit], salt)>>
        ELSE <<TRUE, "">>

\* slip: every guard answers with the breadth of tier 1
get_retrieval_k_Tier1(self) == SCL_PERMISSIONS[1].max_retrieval_k

get_retrieval_k(self) == self.permissions.max_retrieval_k

SCL_SYSTEM_INSTRUCTIONS ==
    [ l \in 1..5 |->
        CASE l = 1 -> SCL_INSTRUCTION_1
          [] l = 2 -> SCL_INSTRUCTION_2
          [] l = 3 -> SCL_INSTRUCTION_3
          [] l = 4 -> SCL_INSTRUCTION_4
          [] l = 5 -> SCL_INSTRUCTION_5 ]

LOCATION_REMINDERS ==
    [ loc \in {"Raccoon City HQ", "Umbrella Europe", "Umbrella Asia",
               "Umbrella North America", "Umbrella South America"} |->
        CASE loc = "Raccoon City HQ"        -> REMINDER_HQ
          [] loc = "Umbrella Europe"        -> REMINDER_EUROPE
          [] loc = "Umbrella Asia"          -> REMINDER_ASIA
          [] loc = "Umbrella North America" -> REMINDER_NORTH_AMERICA
          [] loc = "Umbrella South America" -> REMINDER_SOUTH_AMERICA ]

\* LOCATION_REMINDERS.get(location, "")
LocationReminder(location) ==
    IF location \in DOMAIN LOCATION_REMINDERS THEN LOCATION_REMINDERS[location] ELSE ""

\* slip: the location reminder is put before the directive block
get_dynamic_system_instruction_ReminderFirst(self) ==
    LocationReminder(self.location)
    \o (IF self.scl_level \in DOMAIN SCL_SYSTEM_INSTRUCTIONS
        THEN SCL_SYSTEM_INSTRUCTIONS[self.scl_level]
        ELSE SCL_SYSTEM_INSTRUCTIONS[1])

get_dynamic_system_instruction(self) ==
    (IF self.scl_level \in DOMAIN SCL_SYSTEM_INSTRUCTIONS
     THEN SCL_SYSTEM_INSTRUCTIONS[self.scl_level]
     ELSE SCL_SYSTEM_INSTRUCTIONS[1])
    \o LocationReminder(self.location)

-----------------------------------------------------------------------------
(* employees.py : the employee record handed to the assistant *)

ROLE_DEPARTMENT_MAPPING ==
    [ position \in { "Research Scientist", "Senior Research Lead", "Software Engineer",
                     "IT Security Specialist", "Operations Manager", "HR Specialist",
                     "HR Director", "Security Officer", "Junior Lab Technician",
                     "Facility Administrator" } |->
        CASE position = "Research Scientist"     -> [ department |-> "R&D", scl |-> 3 ]
          [] position = "Senior Research Lead"   -> [ department |-> "R&D", scl |-> 4 ]
          [] position = "Software Engineer"      -> [ department |-> "IT", scl |-> 2 ]
          [] position = "IT Security Specialist" -> [ department |-> "IT", scl |-> 3 ]
          [] position = "Operations Manager"     -> [ department |-> "Operations", scl |-> 2 ]
          [] position = "HR Specialist"          -> [ department |-> "HR", scl |-> 1 ]
          [] position = "HR Director"            -> [ department |-> "HR", scl |-> 2 ]
          [] position = "Security Officer"       -> [ department |-> "Security", scl |-> 4 ]
          [] position = "Junior Lab Technician"  -> [ department |-> "R&D", scl |-> 1 ]
          [] position = "Facility Administrator" -> [ department |-> "Operations", scl |-> 5 ] ]

LOCATION_PROTOCOLS ==
    [ loc \in { "Raccoon City HQ", "Umbrella Europe", "Umbrella Asia",
                "Umbrella North America", "Umbrella South America" } |->
        CASE loc = "Raccoon City HQ"        -> [ security_level |-> "ALPHA", has_underground_facility |-> TRUE ]
          [] loc = "Umbrella Europe"        -> [ security_level |-> "BETA", has_underground_facility |-> FALSE ]
          [] loc = "Umbrella Asia"          -> [ security_level |-> "BETA", has_underground_facility |-> FALSE ]
          [] loc = "Umbrella North America" -> [ security_level |-> "GAMMA", has_underground_facility |-> FALSE ]
          [] loc = "Umbrella South America" -> [ security_level |-> "GAMMA", has_underground_facility |-> FALSE ] ]

\* one record of generate_employee_data, for the position and location it
\* drew and the identity Faker made up; the fields the assistant never reads
\* (email, phone_number, skills, the confidential fields) are left out
generate_employee(position, location, identity) ==
    LET role_data     == ROLE_DEPARTMENT_MAPPING[position]
        location_data == LOCATION_PROTOCOLS[location]
    IN  [ employee_id             |-> identity.employee_id,
          name                    |-> identity.name,
          lastname                |-> identity.lastname,
          position                |-> position,
          department              |-> role_data.department,
          clearance_level         |-> role_data.scl,
          location                |-> location,
          location_security_level |-> location_data.security_level,
          has_facility_access     |-> location_data.has_underground_facility /\ role_data.scl >= 4,
          hire_date               |-> identity.hire_date,
          supervisor              |-> identity.supervisor ]

-----------------------------------------------------------------------------
(* assistant.py : ChatMessageHistory over the table message_history *)

\* slip: INSERT OR REPLACE with one row per session and role
add_message_OnePerRole(table, lastid, session_id, role, content) ==
    { r \in table : ~ (r.session_id = session_id /\ r.role = role) }
        \cup { [ id |-> lastid + 1, session_id |-> session_id, role |-> role, content |-> content ] }

\* INSERT INTO message_history (session_id, role, content); the id is one
\* more than the largest id the table has ever given out (AUTOINCREMENT)
add_message(table, lastid, session_id, role, content) ==
    table \cup { [ id |-> lastid + 1, session_id |-> session_id, role |-> role, content |-> content ] }

\* the rows in ascending id
RECURSIVE OrderById(_)
OrderById(rows) ==
    IF rows = {} THEN <<>>
    ELSE LET first == CHOOSE r \in rows : \A r2 \in rows : r.id <= r2.id
         IN  <<first>> \o OrderById(rows \ {first})

\* slip: ORDER BY id DESC
get_messages_Descending(table, session_id) ==
    LET rows == OrderById({ r \in table : r.session_id = session_id })
    IN  [ i \in 1..Len(rows) |->
            [ role |-> rows[Len(rows) + 1 - i].role, content |-> rows[Len(rows) + 1 - i].content ] ]

\* SELECT role, content ... WHERE session_id = ? ORDER BY id
get_messages(table, session_id) ==
    LET rows == OrderById({ r \in table : r.session_id = session_id })
    IN  [ i \in 1..Len(rows) |-> [ role |-> rows[i].role, content |-> rows[i].content ] ]

IsChatRole(msg) == msg.role \in {"human", "ai"}

\* ChatMessageHistory.get_langchain_messages: HumanMessage / AIMessage per row
get_langchain_messages(table, session_id) ==
    LET kept == SelectSeq(get_messages(table, session_id), IsChatRole)
    IN  [ i \in 1..Len(kept) |->
            [ type    |-> IF kept[i].role = "human" THEN "HumanMessage" ELSE "AIMessage",
              content |-> kept[i].content ] ]

\* slip: DELETE FROM message_history without the WHERE clause
clear_Unscoped(table, session_id) == table \ table

\* DELETE FROM message_history WHERE session_id = ?
clear(table, session_id) == { r \in table : r.session_id # session_id }

-----------------------------------------------------------------------------
(* assistant.py : OnboardingAssistant, the steps of get_response *)

IsSpace(c) == c \in {" ", "\n", "\t", "\r"}

RECURSIVE FirstNonSpace(_, _)
FirstNonSpace(s, i) ==
    IF i > Len(s) THEN i ELSE IF IsSpace(SubSeq(s, i, i)) THEN FirstNonSpace(s, i + 1) ELSE i

RECURSIVE LastNonSpace(_, _)
LastNonSpace(s, i) ==
    IF i < 1 THEN i ELSE IF IsSpace(SubSeq(s, i, i)) THEN LastNonSpace(s, i - 1) ELSE i

\* str.strip
Strip(s) == SubSeq(s, FirstNonSpace(s, 1), LastNonSpace(s, Len(s)))

\* s[:n]
Prefix(s, n) == SubSeq(s, 1, IF Len(s) < n THEN Len(s) ELSE n)

\* emp.get('employee_id', 'N/A')[:8] if emp.get('employee_id') else 'N/A'
ShortId(emp) ==
    IF "employee_id" \in DOMAIN emp /\ emp["employee_id"] # ""
    THEN Prefix(emp["employee_id"], 8) ELSE "N/A"

\* str.join
RECURSIVE Join(_, _)
Join(sep, parts) ==
    IF Len(parts) = 0 THEN ""
    ELSE IF Len(parts) = 1 THEN parts[1]
    ELSE parts[1] \o sep \o Join(sep, Tail(parts))

NO_STORE_TEXT == "No policy information available."

NO_DOCS_TEXT == "No relevant policy information found within your clearance level."

UNAVAILABLE_TEXT == "Policy database temporarily unavailable. Please try again later."

\* slip: without passages the merged text is returned, which is empty
MergeDocuments_NoSentinel(docs) ==
    Join("\n\n---\n\n",
         [ i \in 1..Len(docs) |->
             "[Source: " \o Get(docs[i].metadata, "source", "Unknown") \o "]\n"
                 \o docs[i].page_content ])

\* _retrieve_policy_information after retriever.invoke returned docs
MergeDocuments(docs) ==
    IF Len(docs) = 0 THEN NO_DOCS_TEXT
    ELSE Join("\n\n---\n\n",
              [ i \in 1..Len(docs) |->
                  "[Source: " \o Get(docs[i].metadata, "source", "Unknown") \o "]\n"
                      \o docs[i].page_content ])

format_employee_information(emp, security) ==
    IF DOMAIN emp = {} THEN "No employee information available."
    ELSE asset_profile(Get(emp, "name", "Unknown"), Get(emp, "lastname", ""), ShortId(emp),
                       Get(emp, "position", "Unassigned"), Get(emp, "department", "Unassigned"),
                       Get(emp, "location", "Unknown"),
                       Get(emp, "location_security_level", "GAMMA"),
                       Str(security.scl_level), Get(emp, "hire_date", "Unknown"),
                       Get(emp, "supervisor", "Unassigned"),
                       IF Truthy(Get(emp, "has_facility_access", FALSE))
                       THEN "Level-4 Authorized" ELSE "Standard Access Only")

START_MARKER == "**TRANSMISSION START**"

\* slip: a text without the start marker is returned without being wrapped
format_transmission_response_NoWrap(emp, security, response) ==
    IF Contains(response, START_MARKER) THEN response ELSE Strip(response)

\* slip: the text is wrapped whether or not it already holds the start marker
format_transmission_response_AlwaysWraps(emp, security, response) ==
    Strip(transmission_envelope(Get(emp, "name", "Unknown") \o " " \o Get(emp, "lastname", ""),
                                ShortId(emp), Str(security.scl_level), security.location,
                                response, LocationReminder(security.location)))

format_transmission_response(emp, security, response) ==
    IF Contains(response, START_MARKER) THEN response
    ELSE Strip(transmission_envelope(Get(emp, "name", "Unknown") \o " " \o Get(emp, "lastname", ""),
                                     ShortId(emp), Str(security.scl_level), security.location,
                                     response, LocationReminder(security.location)))

\* the system message of the turn: get_response, STEP 3
formatted_system_prompt(emp, security, retrieved_policy_information) ==
    SYSTEM_PROMPT(format_employee_information(emp, security), retrieved_policy_information)
        \o "\n" \o get_dynamic_system_instruction(security)

\* the text of the except branch of get_response
error_response == Strip(error_response_text)

-----------------------------------------------------------------------------
(* State *)

VARIABLES
    hashseed,       \* salt of str hash in this process
    vector_store,   \* OnboardingAssistant.vector_store: "None" or "Chroma"
    employee,       \* per assistant: employee_information
    security,       \* per assistant: its SecurityGuardrails object
    db,             \* the rows of table message_history
    seq,            \* the largest id the table has given out
    pc,             \* per assistant: where its get_response call stands
    frame,          \* per assistant: the local variables of the call
    ret,            \* per assistant: the value the call returned
    turn,           \* per assistant: what the call has done so far
    turns,          \* number of get_response calls made
    listing,        \* per session: what the last get_messages returned and after what
    gEmp,           \* guard probe: the employee record the guard was built from
    gSecurity,      \* guard probe: the SecurityGuardrails object
    gChecked,       \* guard probe: check_query_permission has been called
    gQuery,         \* guard probe: its argument
    gResult,        \* guard probe: its return value (is_allowed, denial_message)
    gRetrieved,     \* composer probe: the retrieved text STEP 3 was given
    gPrompt         \* composer probe: the system message STEP 3 built from it

vars == <<hashseed, vector_store, employee, security, db, seq, pc, frame, ret, turn, turns,
          listing, gEmp, gSecurity, gChecked, gQuery, gResult, gRetrieved, gPrompt>>

guardVars == <<gEmp, gSecurity, gChecked, gQuery, gResult, gRetrieved, gPrompt>>

assistantVars == <<vector_store, employee, security, pc, frame, ret, turn, turns>>

-----------------------------------------------------------------------------
(* Bounds of the pipeline and the store *)

\* get_response calls made in a run, over all assistants
MaxTurns == 2

\* passages the document store has above the score threshold for a query
MaxDocs == 2

\* rows inserted in a run of the store operations
MaxRows == 3

-----------------------------------------------------------------------------
(* Inputs of the pipeline *)

Assistants == {"a1", "a2"}

\* what Faker made up for the two employees
Identity ==
    [ a \in Assistants |->
        IF a = "a1"
        THEN [ employee_id |-> "4f9c2a1e-7b3d-4c58-9e21-0a6d5f3b8c11", name |-> "Rebecca",
               lastname |-> "Chambers", hire_date |-> "2024-03-18", supervisor |-> "William Birkin" ]
        ELSE [ employee_id |-> "b81d0e6a-25f4-4a9b-8d37-c2e94f10a7d5", name |-> "Albert",
               lastname |-> "Wesker", hire_date |-> "2017-09-02", supervisor |-> "Ozwell Spencer" ] ]

\* the position and location drawn for each: an entry-level asset at a remote
\* site, and a top-clearance asset at headquarters (with facility access)
Drawn ==
    [ a \in Assistants |->
        IF a = "a1" THEN <<"Junior Lab Technician", "Umbrella Europe">>
        ELSE <<"Facility Administrator", "Raccoon City HQ">> ]

\* app.py: session_id = user_data.get("employee_id", "default")
SessionId(emp) == Get(emp, "employee_id", "default")

SessionIds == { Identity[a].employee_id : a \in Assistants }

PipelineQueries == { "Salary", "Nemesis", "Vacation" }

\* the i-th passage of the store's ranking; every second one has no source label
Doc(i) ==
    [ page_content |-> "Handbook passage " \o Str(i),
      metadata     |-> IF i % 2 = 1 THEN [ source |-> "data/Umbrella_Employee_Handbook.pdf" ]
                       ELSE NoMetadata ]

\* what retriever.invoke can return for breadth k: the first n passages of the ranking
RetrieverResults(k) ==
    { [ i \in 1..n |-> Doc(i) ] : n \in 0..(IF k < MaxDocs THEN k ELSE MaxDocs) }

\* texts the generator can return: a plain answer, and an answer that opens
\* the envelope the system prompt asks for and is cut off before its end
GenOutputs ==
    { "Submit Form UC-100 to your supervisor.",
      "**TRANSMISSION START**\n---\n**SUBJECT**: Leave\n\n**PROTOCOL RESPONSE**: \nSubmit Form" }

\* messages handed to add_message when the store is driven directly
StoreMessages ==
    { [ role |-> "human", content |-> "hello" ],
      [ role |-> "ai", content |-> "hello" ],
      [ role |-> "ai", content |-> "welcome" ] }

EmptyFrame ==
    [ user_input |-> "", denial_message |-> "", retrieved_policy_information |-> "",
      system_prompt |-> "", chat_history |-> <<>>, response |-> "", formatted_response |-> "" ]

\* log0: get_messages of the session when the call began; search_k: the "k" of
\* the search_kwargs the retriever was made with; retrieval: how
\* _retrieve_policy_information ended; raised: the step whose exception reached
\* the except branch of get_response; outcome: how the call ended;
\* append_errors, list_error: sqlite3.Error caught inside add_message and
\* get_messages during the call
EmptyTurn ==
    [ log0 |-> <<>>, retriever_calls |-> 0, search_k |-> 0, generator_calls |-> 0,
      retrieval |-> "", raised |-> "", outcome |-> "", append_errors |-> 0, list_error |-> FALSE ]

EmptyListing == [ result |-> <<>>, listed |-> FALSE, before |-> "", last |-> "", appended |-> <<>> ]

-----------------------------------------------------------------------------
(* Initial states *)

InitStore ==
    /\ db = {}
    /\ seq = 0
    /\ listing = [ sid \in SessionIds |-> EmptyListing ]

InitAssistants ==
    /\ vector_store \in {"None", "Chroma"}
    /\ employee = [ a \in Assistants |-> generate_employee(Drawn[a][1], Drawn[a][2], Identity[a]) ]
    /\ security = [ a \in Assistants |-> SecurityGuardrails(employee[a]) ]
    /\ pc = [ a \in Assistants |-> "idle" ]
    /\ frame = [ a \in Assistants |-> EmptyFrame ]
    /\ ret = [ a \in Assistants |-> "" ]
    /\ turn = [ a \in Assistants |-> EmptyTurn ]
    /\ turns = 0

InitProbe ==
    /\ gEmp = NoEmployee
    /\ gSecurity = SecurityGuardrails(gEmp)
    /\ gChecked = FALSE
    /\ gQuery = ""
    /\ gResult = <<TRUE, "">>
    /\ gRetrieved = ""
    /\ gPrompt = ""

Init ==
    /\ hashseed = 0
    /\ InitStore
    /\ InitAssistants
    /\ InitProbe

-----------------------------------------------------------------------------
(* OnboardingAssistant.get_response, one action per step *)

Sid(a) == SessionId(employee[a])

\* the call is made: user_input is bound
get_response(a, user_input) ==
    /\ pc[a] = "idle"
    /\ turns < MaxTurns
    /\ turns' = turns + 1
    /\ pc' = [pc EXCEPT ![a] = "check"]
    /\ frame' = [frame EXCEPT ![a] = [EmptyFrame EXCEPT !.user_input = user_input]]
    /\ turn' = [turn EXCEPT ![a] = [EmptyTurn EXCEPT !.log0 = get_messages(db, Sid(a))]]
    /\ ret' = [ret EXCEPT ![a] = ""]
    /\ UNCHANGED <<hashseed, vector_store, employee, security, db, seq, listing, guardVars>>

\* STEP 1: the security pre-check
SecurityPreCheck(a) ==
    /\ pc[a] = "check"
    /\ LET result == check_query_permission(security[a], frame[a].user_input, hashseed)
       IN  IF ~ result[1]
           THEN /\ pc' = [pc EXCEPT ![a] = "deny_save_human"]
                /\ frame' = [frame EXCEPT ![a].denial_message = result[2]]
           ELSE /\ pc' = [pc EXCEPT ![a] = "retrieve"]
                /\ UNCHANGED frame
    /\ UNCHANGED <<hashseed, vector_store, employee, security, db, seq, ret, turn, turns,
                   listing, guardVars>>

\* slip: a denied query is not written to the history
DenySaveHuman_Skipped(a) ==
    /\ pc[a] = "deny_save_human"
    /\ pc' = [pc EXCEPT ![a] = "deny_save_ai"]
    /\ UNCHANGED <<hashseed, vector_store, employee, security, db, seq, frame, ret, turn, turns,
                   listing, guardVars>>

\* denied: chat_history.add_message("human", user_input)
DenySaveHuman(a) ==
    /\ pc[a] = "deny_save_human"
    /\ db' = add_message(db, seq, Sid(a), "human", frame[a].user_input)
    /\ seq' = seq + 1
    /\ pc' = [pc EXCEPT ![a] = "deny_save_ai"]
    /\ UNCHANGED <<hashseed, vector_store, employee, security, frame, ret, turn, turns,
                   listing, guardVars>>

\* denied: chat_history.add_message("ai", denial_message); return denial_message
DenySaveAi(a) ==
    /\ pc[a] = "deny_save_ai"
    /\ db' = add_message(db, seq, Sid(a), "ai", frame[a].denial_message)
    /\ seq' = seq + 1
    /\ pc' = [pc EXCEPT ![a] = "done"]
    /\ ret' = [ret EXCEPT ![a] = frame[a].denial_message]
    /\ turn' = [turn EXCEPT ![a].outcome = "denied"]
    /\ UNCHANGED <<hashseed, vector_store, employee, security, frame, turns, listing, guardVars>>

\* STEP 2 without a vector store
RetrieveNoStore(a) ==
    /\ pc[a] = "retrieve"
    /\ vector_store = "None"
    /\ frame' = [frame EXCEPT ![a].retrieved_policy_information = NO_STORE_TEXT]
    /\ turn' = [turn EXCEPT ![a].retrieval = "no_store"]
    /\ pc' = [pc EXCEPT ![a] = "compose"]
    /\ UNCHANGED <<hashseed, vector_store, employee, security, db, seq, ret, turns,
                   listing, guardVars>>

\* STEP 2: retriever.invoke returns docs
RetrieveDocs(a, docs) ==
    /\ pc[a] = "retrieve"
    /\ vector_store # "None"
    /\ docs \in RetrieverResults(get_retrieval_k(security[a]))
    /\ frame' = [frame EXCEPT ![a].retrieved_policy_information = MergeDocuments(docs)]
    /\ turn' = [turn EXCEPT ![a].retrieval = IF Len(docs) = 0 THEN "empty" ELSE "docs",
                            ![a].retriever_calls = @ + 1,
                            ![a].search_k = get_retrieval_k(security[a])]
    /\ pc' = [pc EXCEPT ![a] = "compose"]
    /\ UNCHANGED <<hashseed, vector_store, employee, security, db, seq, ret, turns,
                   listing, guardVars>>

\* slip: the exception of the document store is not caught in _retrieve_policy_information
RetrieveRaises_Uncaught(a) ==
    /\ pc[a] = "retrieve"
    /\ vector_store # "None"
    /\ turn' = [turn EXCEPT ![a].retrieval = "raised", ![a].retriever_calls = @ + 1,
                            ![a].search_k = get_retrieval_k(security[a])]
    /\ pc' = [pc EXCEPT ![a] = "except"]
    /\ UNCHANGED <<hashseed, vector_store, employee, security, db, seq, frame, ret, turns,
                   listing, guardVars>>

\* STEP 2: the document store raises, the except branch of _retrieve_policy_information
RetrieveRaises(a) ==
    /\ pc[a] = "retrieve"
    /\ vector_store # "None"
    /\ frame' = [frame EXCEPT ![a].retrieved_policy_information = UNAVAILABLE_TEXT]
    /\ turn' = [turn EXCEPT ![a].retrieval = "raised", ![a].retriever_calls = @ + 1,
                            ![a].search_k = get_retrieval_k(security[a])]
    /\ pc' = [pc EXCEPT ![a] = "compose"]
    /\ UNCHANGED <<hashseed, vector_store, employee, security, db, seq, ret, turns,
                   listing, guardVars>>

\* slip: the query is written to the history while the context is prepared
Compose_SavesQuery(a) ==
    /\ pc[a] = "compose"
    /\ frame' = [frame EXCEPT ![a].system_prompt =
                    formatted_system_prompt(employee[a], security[a],
                                            frame[a].retrieved_policy_information)]
    /\ db' = add_message(db, seq, Sid(a), "human", frame[a].user_input)
    /\ seq' = seq + 1
    /\ pc' = [pc EXCEPT ![a] = "generate"]
    /\ UNCHANGED <<hashseed, vector_store, employee, security, ret, turn, turns,
                   listing, guardVars>>

\* STEP 3: context preparation
Compose(a) ==
    /\ pc[a] = "compose"
    /\ frame' = [frame EXCEPT ![a].system_prompt =
                    formatted_system_prompt(employee[a], security[a],
                                            frame[a].retrieved_policy_information)]
    /\ pc' = [pc EXCEPT ![a] = "generate"]
    /\ UNCHANGED <<hashseed, vector_store, employee, security, db, seq, ret, turn, turns,
                   listing, guardVars>>

\* slip: the new query is put into the history that is handed to the chain
Generate_WithQuery(a, text) ==
    /\ pc[a] = "generate"
    /\ text \in GenOutputs
    /\ frame' = [frame EXCEPT ![a].chat_history =
                                  Append(get_langchain_messages(db, Sid(a)),
                                         [ type |-> "HumanMessage", content |-> frame[a].user_input ]),
                              ![a].response = text]
    /\ turn' = [turn EXCEPT ![a].generator_calls = @ + 1]
    /\ pc' = [pc EXCEPT ![a] = "format"]
    /\ UNCHANGED <<hashseed, vector_store, employee, security, db, seq, ret, turns,
                   listing, guardVars>>

\* STEP 4: the history is read and chain.invoke returns text
Generate(a, text) ==
    /\ pc[a] = "generate"
    /\ text \in GenOutputs
    /\ frame' = [frame EXCEPT ![a].chat_history = get_langchain_messages(db, Sid(a)),
                              ![a].response = text]
    /\ turn' = [turn EXCEPT ![a].generator_calls = @ + 1]
    /\ pc' = [pc EXCEPT ![a] = "format"]
    /\ UNCHANGED <<hashseed, vector_store, employee, security, db, seq, ret, turns,
                   listing, guardVars>>

\* STEP 4: the history is read and chain.invoke raises
GenerateRaises(a) ==
    /\ pc[a] = "generate"
    /\ frame' = [frame EXCEPT ![a].chat_history = get_langchain_messages(db, Sid(a))]
    /\ turn' = [turn EXCEPT ![a].generator_calls = @ + 1, ![a].raised = "generator"]
    /\ pc' = [pc EXCEPT ![a] = "except"]
    /\ UNCHANGED <<hashseed, vector_store, employee, security, db, seq, ret, turns,
                   listing, guardVars>>

\* STEP 5: output formatting
Format(a) ==
    /\ pc[a] = "format"
    /\ frame' = [frame EXCEPT ![a].formatted_response =
                    format_transmission_response(employee[a], security[a], frame[a].response)]
    /\ pc' = [pc EXCEPT ![a] = "save_human"]
    /\ UNCHANGED <<hashseed, vector_store, employee, security, db, seq, ret, turn, turns,
                   listing, guardVars>>

\* slip: the query is saved under the role of the answer
SaveHuman_AsAi(a) ==
    /\ pc[a] = "save_human"
    /\ db' = add_message(db, seq, Sid(a), "ai", frame[a].user_input)
    /\ seq' = seq + 1
    /\ pc' = [pc EXCEPT ![a] = "save_ai"]
    /\ UNCHANGED <<hashseed, vector_store, employee, security, frame, ret, turn, turns,
                   listing, guardVars>>

\* STEP 6: chat_history.add_message("human", user_input)
SaveHuman(a) ==
    /\ pc[a] = "save_human"
    /\ db' = add_message(db, seq, Sid(a), "human", frame[a].user_input)
    /\ seq' = seq + 1
    /\ pc' = [pc EXCEPT ![a] = "save_ai"]
    /\ UNCHANGED <<hashseed, vector_store, employee, security, frame, ret, turn, turns,
                   listing, guardVars>>

\* slip: the raw generator text is saved instead of the formatted response
SaveAi_Raw(a) ==
    /\ pc[a] = "save_ai"
    /\ db' = add_message(db, seq, Sid(a), "ai", frame[a].response)
    /\ seq' = seq + 1
    /\ pc' = [pc EXCEPT ![a] = "done"]
    /\ ret' = [ret EXCEPT ![a] = frame[a].formatted_response]
    /\ turn' = [turn EXCEPT ![a].outcome = "answered"]
    /\ UNCHANGED <<hashseed, vector_store, employee, security, frame, turns, listing, guardVars>>

\* STEP 6: chat_history.add_message("ai", formatted_response); return formatted_response
SaveAi(a) ==
    /\ pc[a] = "save_ai"
    /\ db' = add_message(db, seq, Sid(a), "ai", frame[a].formatted_response)
    /\ seq' = seq + 1
    /\ pc' = [pc EXCEPT ![a] = "done"]
    /\ ret' = [ret EXCEPT ![a] = frame[a].formatted_response]
    /\ turn' = [turn EXCEPT ![a].outcome = "answered"]
    /\ UNCHANGED <<hashseed, vector_store, employee, security, frame, turns, listing, guardVars>>

\* slip: the degraded response names the query it failed on
HandleException_Leaky(a) ==
    /\ pc[a] = "except"
    /\ pc' = [pc EXCEPT ![a] = "done"]
    /\ ret' = [ret EXCEPT ![a] = error_response \o "\nFailed inquiry: " \o frame[a].user_input]
    /\ turn' = [turn EXCEPT ![a].outcome = "degraded"]
    /\ UNCHANGED <<hashseed, vector_store, employee, security, db, seq, frame, turns,
                   listing, guardVars>>

\* the except branch: return error_response.strip()
HandleException(a) ==
    /\ pc[a] = "except"
    /\ pc' = [pc EXCEPT ![a] = "done"]
    /\ ret' = [ret EXCEPT ![a] = error_response]
    /\ turn' = [turn EXCEPT ![a].outcome = "degraded"]
    /\ UNCHANGED <<hashseed, vector_store, employee, security, db, seq, frame, turns,
                   listing, guardVars>>

\* the caller has the return value; the assistant is ready for the next call
Returned(a) ==
    /\ pc[a] = "done"
    /\ pc' = [pc EXCEPT ![a] = "idle"]
    /\ frame' = [frame EXCEPT ![a] = EmptyFrame]
    /\ turn' = [turn EXCEPT ![a] = EmptyTurn]
    /\ ret' = [ret EXCEPT ![a] = ""]
    /\ UNCHANGED <<hashseed, vector_store, employee, security, db, seq, turns, listing, guardVars>>

\* slip: the DELETE has lost its WHERE session_id = ?
clear_history_AllSessions(a) ==
    /\ pc[a] = "idle"
    /\ db' = {}
    /\ UNCHANGED <<hashseed, seq, assistantVars, listing, guardVars>>

\* OnboardingAssistant.clear_history
clear_history(a) ==
    /\ pc[a] = "idle"
    /\ db' = clear(db, Sid(a))
    /\ UNCHANGED <<hashseed, seq, assistantVars, listing, guardVars>>

Next ==
    \E a \in Assistants :
        \/ \E q \in PipelineQueries : get_response(a, q)
        \/ SecurityPreCheck(a)
        \/ DenySaveHuman(a)
        \/ DenySaveAi(a)
        \/ RetrieveNoStore(a)
        \/ \E docs \in RetrieverResults(get_retrieval_k(security[a])) : RetrieveDocs(a, docs)
        \/ RetrieveRaises(a)
        \/ Compose(a)
        \/ \E text \in GenOutputs : Generate(a, text)
        \/ GenerateRaises(a)
        \/ Format(a)
        \/ SaveHuman(a)
        \/ SaveAi(a)
        \/ HandleException(a)
        \/ Returned(a)
        \/ clear_history(a)

Spec == Init /\ [][Next]_vars

\* the steps get_response takes once it has been called, up to its return
Step(a) ==
    \/ SecurityPreCheck(a)
    \/ DenySaveHuman(a)
    \/ DenySaveAi(a)
    \/ RetrieveNoStore(a)
    \/ \E docs \in RetrieverResults(get_retrieval_k(security[a])) : RetrieveDocs(a, docs)
    \/ RetrieveRaises(a)
    \/ Compose(a)
    \/ \E text \in GenOutputs : Generate(a, text)
    \/ GenerateRaises(a)
    \/ Format(a)
    \/ SaveHuman(a)
    \/ SaveAi(a)
    \/ HandleException(a)

\* a call that has begun keeps running: its thread is not abandoned, and each
\* call it makes to the retriever, the generator or the store returns or
\* raises. Nothing obliges anybody to begin a call, to take the returned text
\* or to clear a log.
SpecFair == Spec /\ \A a \in Assistants : WF_vars(Step(a))

-----------------------------------------------------------------------------
(* The conversation store driven directly, one ChatMessageHistory per session *)

\* ChatMessageHistory.add_message
StoreAdd(sid, msg) ==
    /\ seq < MaxRows
    /\ db' = add_message(db, seq, sid, msg.role, msg.content)
    /\ seq' = seq + 1
    /\ listing' = [listing EXCEPT ![sid].last = "add", ![sid].appended = Append(@, msg)]
    /\ UNCHANGED <<hashseed, assistantVars, guardVars>>

\* ChatMessageHistory.get_messages
StoreList(sid) ==
    /\ listing' = [listing EXCEPT ![sid].result = get_messages(db, sid),
                                  ![sid].listed = TRUE,
                                  ![sid].before = listing[sid].last,
                                  ![sid].last = "list"]
    /\ UNCHANGED <<hashseed, db, seq, assistantVars, guardVars>>

\* ChatMessageHistory.clear
StoreClear(sid) ==
    /\ db' = clear(db, sid)
    /\ listing' = [listing EXCEPT ![sid].last = "clear", ![sid].appended = <<>>]
    /\ UNCHANGED <<hashseed, seq, assistantVars, guardVars>>

NextStore ==
    \E sid \in SessionIds :
        \/ \E msg \in StoreMessages : StoreAdd(sid, msg)
        \/ StoreList(sid)
        \/ StoreClear(sid)

InitStoreOnly ==
    /\ hashseed = 0
    /\ InitStore
    /\ InitAssistants
    /\ vector_store = "None"
    /\ InitProbe

SpecStore == InitStoreOnly /\ [][NextStore]_vars

-----------------------------------------------------------------------------
(* Inputs of the guard probe *)

ProbeLevels == 0..MaxProbeLevel

\* employee records: clearance level present (any probed integer) or missing,
\* facility flag present or missing, two display names
GuardActors ==
    { disp @@ lvl @@ fac :
        disp \in { [ name |-> "Jill", location |-> "Raccoon City HQ" ],
                   [ name |-> "Carlos", location |-> "Umbrella Europe" ] },
        lvl  \in { [ clearance_level |-> l ] : l \in ProbeLevels } \cup { NoEmployee },
        fac  \in { [ has_facility_access |-> b ] : b \in BOOLEAN } \cup { NoEmployee } }
    \cup { NoEmployee }

\* words a probed query is built from: confidential terms of both languages,
\* a facility term, forbidden keywords of three tiers, a word that merely
\* contains a keyword, a word that matches nothing, and the capitals of a
\* facility term that ends in a dotless i; letter case varies
Fragments ==
    << "salary", "MAA%", "Underground", "outbreak", "Nemesis", "secretary", "vacation",
       "YERALTI" >>

RECURSIVE QueriesOfLen(_)
QueriesOfLen(n) ==
    IF n = 1 THEN Elems(Fragments)
    ELSE { q \o " " \o f : q \in QueriesOfLen(n - 1), f \in Elems(Fragments) }

GuardQueries == UNION { QueriesOfLen(n) : n \in 1..MaxTerms }

-----------------------------------------------------------------------------
(* The guard probe: a guard is constructed, then asked about one query *)

InitGuard ==
    /\ hashseed \in 0..MaxHashSeed
    /\ InitStore
    /\ InitAssistants
    /\ vector_store = "None"
    /\ gEmp \in GuardActors
    /\ gSecurity = SecurityGuardrails(gEmp)
    /\ gChecked = FALSE
    /\ gQuery = ""
    /\ gResult = <<TRUE, "">>
    /\ gRetrieved = ""
    /\ gPrompt = ""

GuardCheck(q) ==
    /\ ~ gChecked
    /\ gChecked' = TRUE
    /\ gQuery' = q
    /\ gResult' = check_query_permission(gSecurity, q, hashseed)
    /\ UNCHANGED <<hashseed, db, seq, listing, assistantVars, gEmp, gSecurity, gRetrieved, gPrompt>>

NextGuard == \E q \in GuardQueries : GuardCheck(q)

SpecGuard == InitGuard /\ [][NextGuard]_vars

-----------------------------------------------------------------------------
(* The composer probe: STEP 3 of get_response for an assistant of any actor *)

\* employee records: one of the five facilities, a facility without a
\* reminder, or no location; any probed clearance level, or none
ComposerActors ==
    { disp @@ lvl :
        disp \in { [ name |-> "Jill", lastname |-> "Valentine", location |-> loc ] :
                     loc \in DOMAIN LOCATION_REMINDERS \cup { "Arklay Laboratory" } }
                 \cup { [ name |-> "Jill", lastname |-> "Valentine" ] },
        lvl  \in { [ clearance_level |-> l ] : l \in ProbeLevels } \cup { NoEmployee } }
    \cup { NoEmployee }

\* texts STEP 2 can hand over: a sentinel, and one labelled passage
RetrievedTexts == { NO_DOCS_TEXT, MergeDocuments(<< Doc(1) >>) }

InitComposer ==
    /\ hashseed \in 0..MaxHashSeed
    /\ InitStore
    /\ InitAssistants
    /\ vector_store = "None"
    /\ gEmp \in ComposerActors
    /\ gSecurity = SecurityGuardrails(gEmp)
    /\ gChecked = FALSE
    /\ gQuery = ""
    /\ gResult = <<TRUE, "">>
    /\ gRetrieved = ""
    /\ gPrompt = ""

\* STEP 3: employee_info, dynamic_instruction, formatted_system_prompt
ComposeProbe(text) ==
    /\ gPrompt = ""
    /\ gRetrieved' = text
    /\ gPrompt' = formatted_system_prompt(gEmp, gSecurity, text)
    /\ UNCHANGED <<hashseed, db, seq, listing, assistantVars, gEmp, gSecurity, gChecked,
                   gQuery, gResult>>

NextComposer == \E text \in RetrievedTexts : ComposeProbe(text)

SpecComposer == InitComposer /\ [][NextComposer]_vars

-----------------------------------------------------------------------------
(* Vocabulary of the claims about the guard *)

HasTerm(keywords, query) ==
    LET lowered == Lower(query)
    IN  \E i \in 1..Len(keywords) : Contains(lowered, keywords[i])

IsConfidentialQuery(query) == HasTerm(CONFIDENTIAL_KEYWORDS, query)

IsFacilityQuery(query) == HasTerm(FACILITY_KEYWORDS, query)

\* the actor's facility flag as the employee record gives it
HasFacilityFlag(emp) == "has_facility_access" \in DOMAIN emp /\ emp["has_facility_access"] = TRUE

\* the tier whose keyword set applies to the employee record
TierOf(emp) ==
    IF "clearance_level" \in DOMAIN emp /\ emp["clearance_level"] \in 1..5
    THEN emp["clearance_level"] ELSE 1

ForbiddenAt(level) == Elems(SCL_PERMISSIONS[level].restricted_keywords)

IsForbiddenQuery(emp, query) == HasTerm(SCL_PERMISSIONS[TierOf(emp)].restricted_keywords, query)

\* denial category, read off the denial text
CategoryOf(message) ==
    IF message = confidential_data THEN "confidential"
    ELSE IF message = underground_facility THEN "facility"
    ELSE IF Contains(message, "Access Denied - Insufficient Clearance") THEN "clearance"
    ELSE "none"

Denied(result) == result[1] = FALSE

\* the required level a clearance denial reports
ReportsRequired(message, r) ==
    Contains(message, "Subject matter requires SCL-" \o Str(r) \o " authorization")

\* lowest tier, scanning 1..5 upward, whose forbidden set excludes the keyword
LowestTierExcluding(kw) ==
    CHOOSE r \in 1..5 : kw \notin ForbiddenAt(r) /\ \A r2 \in 1..(r - 1) : kw \in ForbiddenAt(r2)

\* the keyword of the tier's list that comes first in list order among those in the query
FirstForbiddenIn(emp, query) ==
    LET list    == SCL_PERMISSIONS[TierOf(emp)].restricted_keywords
        lowered == Lower(query)
        i       == CHOOSE j \in 1..Len(list) :
                       /\ Contains(lowered, list[j])
                       /\ \A j2 \in 1..(j - 1) : ~ Contains(lowered, list[j2])
    IN  list[i]

-----------------------------------------------------------------------------
(* C1-C4 : the access guard *)

\* C1: whatever the actor's clearance level (level 5 included) and facility
\* flag, a query whose lower-cased text contains a confidential term is denied
\* and the denial is the confidential-data denial.
C1_ConfidentialAlwaysDenied ==
    (gChecked /\ IsConfidentialQuery(gQuery))
        => gResult = <<FALSE, confidential_data>>

C1_Witness ==
    /\ gChecked
    /\ IsConfidentialQuery(gQuery)
    /\ "clearance_level" \in DOMAIN gEmp /\ gEmp["clearance_level"] = 5
    /\ HasFacilityFlag(gEmp)
    /\ gResult = <<FALSE, confidential_data>>

\* C2 as stated: an actor without the facility flag is denied with category
\* facility for every query containing a facility term, and an actor with the
\* flag is never denied by the facility rule.
C2_Original ==
    gChecked =>
        /\ (IsFacilityQuery(gQuery) /\ ~ HasFacilityFlag(gEmp))
              => (Denied(gResult) /\ CategoryOf(gResult[2]) = "facility")
        /\ (IsFacilityQuery(gQuery) /\ HasFacilityFlag(gEmp))
              => CategoryOf(gResult[2]) # "facility"

\* C2 amended: an actor without the facility flag is denied with category
\* facility for every query that contains a facility term and no confidential
\* term; an actor with the flag is never denied by the facility rule.
C2_FacilityRule ==
    gChecked =>
        /\ (IsFacilityQuery(gQuery) /\ ~ IsConfidentialQuery(gQuery) /\ ~ HasFacilityFlag(gEmp))
              => gResult = <<FALSE, underground_facility>>
        /\ (IsFacilityQuery(gQuery) /\ HasFacilityFlag(gEmp))
              => CategoryOf(gResult[2]) # "facility"

C2_Witness ==
    /\ gChecked
    /\ IsFacilityQuery(gQuery) /\ ~ IsConfidentialQuery(gQuery)
    /\ ~ HasFacilityFlag(gEmp)
    /\ gResult = <<FALSE, underground_facility>>

\* C3 as stated: for an actor of level L in 1..5 and every keyword of L's
\* forbidden set that the query contains, the query is denied with category
\* clearance and the reported required level is the lowest tier whose
\* forbidden set excludes that keyword.
C3_Original ==
    (gChecked /\ "clearance_level" \in DOMAIN gEmp /\ gEmp["clearance_level"] \in 1..5)
        => \A kw \in ForbiddenAt(gEmp["clearance_level"]) :
              HasTerm(<<kw>>, gQuery)
                  => /\ Denied(gResult)
                     /\ CategoryOf(gResult[2]) = "clearance"
                     /\ ReportsRequired(gResult[2], LowestTierExcluding(kw))

\* C3 amended: for an actor of level L in 1..5 and a query that contains a
\* keyword of L's forbidden set, no confidential term, and no facility term
\* unless the actor has the facility flag, the query is denied with category
\* clearance, and the reported required level is the lowest tier (scanning
\* 1..5 upward) whose forbidden set excludes the first keyword, in the order
\* of L's keyword list, that the query contains.
C3_ClearanceDenial ==
    (/\ gChecked
     /\ "clearance_level" \in DOMAIN gEmp /\ gEmp["clearance_level"] \in 1..5
     /\ IsForbiddenQuery(gEmp, gQuery)
     /\ ~ IsConfidentialQuery(gQuery)
     /\ (IsFacilityQuery(gQuery) => HasFacilityFlag(gEmp)))
        => /\ Denied(gResult)
           /\ CategoryOf(gResult[2]) = "clearance"
           /\ ReportsRequired(gResult[2], LowestTierExcluding(FirstForbiddenIn(gEmp, gQuery)))
           /\ \A r \in 0..9 :
                 ReportsRequired(gResult[2], r)
                     => r = LowestTierExcluding(FirstForbiddenIn(gEmp, gQuery))

\* a clearance denial whose required level is neither the default 5 nor L + 1
C3_Witness ==
    /\ gChecked
    /\ "clearance_level" \in DOMAIN gEmp /\ gEmp["clearance_level"] = 1
    /\ CategoryOf(gResult[2]) = "clearance"
    /\ ReportsRequired(gResult[2], 3)

\* C4: the rules are tried in the order confidential, facility, clearance and
\* the first that matches decides: a confidential query is denied as
\* confidential also when it matches the facility or the clearance rule, and a
\* facility query from an actor without the flag is denied as facility also
\* when it contains a keyword forbidden at the actor's clearance.
C4_RuleOrder ==
    gChecked =>
        /\ (/\ IsConfidentialQuery(gQuery)
            /\ \/ (IsFacilityQuery(gQuery) /\ ~ HasFacilityFlag(gEmp))
               \/ IsForbiddenQuery(gEmp, gQuery))
              => CategoryOf(gResult[2]) = "confidential"
        /\ (/\ ~ IsConfidentialQuery(gQuery)
            /\ IsFacilityQuery(gQuery) /\ ~ HasFacilityFlag(gEmp)
            /\ IsForbiddenQuery(gEmp, gQuery))
              => CategoryOf(gResult[2]) = "facility"

C4_Witness ==
    /\ gChecked
    /\ ~ IsConfidentialQuery(gQuery)
    /\ IsFacilityQuery(gQuery) /\ ~ HasFacilityFlag(gEmp)
    /\ IsForbiddenQuery(gEmp, gQuery)
    /\ CategoryOf(gResult[2]) = "facility"

-----------------------------------------------------------------------------
(* Vocabulary of the claims about get_response *)

\* check_query_permission of the assistant's guard on the query of the call in progress
Verdict(a) == check_query_permission(security[a], frame[a].user_input, hashseed)

\* the guard's decision on the query of the call in progress
GuardDenies(a) == ~ Verdict(a)[1]

\* the session log as the store lists it now
Log(a) == get_messages(db, Sid(a))

Human(text) == [ role |-> "human", content |-> text ]

Ai(text) == [ role |-> "ai", content |-> text ]

\* the call has appended exactly the query and then this answer
AppendedPair(a, answer) == Log(a) = turn[a].log0 \o << Human(frame[a].user_input), Ai(answer) >>

\* the text is the standard envelope the formatter builds around some body
IsStandardEnvelope(a, text) ==
    /\ SubSeq(text, 1, Len(START_MARKER)) = START_MARKER
    /\ Contains(text, "**IDENTIFIED ASSET**: ")
    /\ Contains(text, "**SUBJECT**: Employee Inquiry Response")
    /\ Contains(text, "This transmission is logged under Protocol 7-Alpha")

-----------------------------------------------------------------------------
(* C5-C9 : the response pipeline *)

\* C5: when the guard denies the query, the call appends exactly two messages
\* to the session log, the raw query as human and then the denial text as ai,
\* returns that denial text, and calls neither the retriever nor the generator.
C5_DenialPersisted ==
    \A a \in Assistants :
        (pc[a] = "done" /\ GuardDenies(a))
            => /\ turn[a].retriever_calls = 0
               /\ turn[a].generator_calls = 0
               /\ ret[a] = Verdict(a)[2]
               /\ CategoryOf(ret[a]) # "none"
               /\ AppendedPair(a, ret[a])

\* a denial returned on top of a history that was not empty
C5_Witness ==
    \E a \in Assistants :
        /\ pc[a] = "done" /\ GuardDenies(a)
        /\ turn[a].log0 # <<>>
        /\ CategoryOf(ret[a]) = "clearance"
        /\ AppendedPair(a, ret[a])

\* C6: when the guard allows the query and generation succeeds, the call
\* appends exactly two messages to the session log, the raw query as human and
\* then the formatted response as ai, and returns the text of that ai message.
C6_AnswerPersisted ==
    \A a \in Assistants :
        (pc[a] = "done" /\ turn[a].raised = "" /\ ~ GuardDenies(a))
            => /\ frame[a].response \in GenOutputs
               /\ ret[a] = format_transmission_response(employee[a], security[a], frame[a].response)
               /\ AppendedPair(a, ret[a])
               /\ Log(a)[Len(Log(a))] = Ai(ret[a])

\* a plain generator text, wrapped, returned and saved after an earlier turn
C6_Witness ==
    \E a \in Assistants :
        /\ pc[a] = "done" /\ turn[a].raised = "" /\ ~ GuardDenies(a)
        /\ turn[a].log0 # <<>>
        /\ ~ Contains(frame[a].response, START_MARKER)
        /\ ret[a] # frame[a].response
        /\ AppendedPair(a, ret[a])

\* C7: when the generator raises, the exception does not leave get_response:
\* the call returns the degraded-system envelope, one fixed text whatever the
\* actor and the query.
C7_DegradedResponse ==
    \A a \in Assistants :
        /\ pc[a] # "escaped"
        /\ (pc[a] = "done" /\ turn[a].raised # "")
              => /\ ret[a] = error_response
                 /\ \A b \in Assistants :
                        (pc[b] = "done" /\ turn[b].raised # "") => ret[b] = ret[a]

\* two actors, two different queries, both answered with the degraded envelope
C7_Witness ==
    /\ \A a \in Assistants : pc[a] = "done" /\ turn[a].raised = "generator"
    /\ frame["a1"].user_input # frame["a2"].user_input
    /\ ret["a1"] = error_response

\* C8: when an exception is raised while an allowed turn is processed, the raw
\* query is written to the session log as a human message before the degraded
\* response is returned.
C8_QueryPersistedOnError ==
    \A a \in Assistants :
        (pc[a] = "done" /\ turn[a].raised # "")
            => \E i \in (Len(turn[a].log0) + 1)..Len(Log(a)) : Log(a)[i] = Human(frame[a].user_input)

-----------------------------------------------------------------------------
(* C10 : the conversation store of one session *)

\* C10: a listing made right after a clear is empty, and a listing made after
\* N messages were appended to the empty session is those N messages, role
\* and content, in the order they were appended.
C10_ClearThenListAppendThenList ==
    \A sid \in SessionIds :
        listing[sid].last = "list"
            => /\ listing[sid].before = "clear" => listing[sid].result = <<>>
               /\ listing[sid].result = listing[sid].appended

\* three messages appended to one session, rows of the other session in
\* between, then listed
C10_Witness ==
    \E sid \in SessionIds :
        /\ listing[sid].last = "list"
        /\ Len(listing[sid].appended) >= 2
        /\ listing[sid].appended[1] # listing[sid].appended[2]
        /\ listing[sid].result = listing[sid].appended
        /\ \E r \in db : r.session_id # sid /\ \E r2 \in db : r2.session_id = sid /\ r2.id > r.id

-----------------------------------------------------------------------------
(* C11 : the conversation store across sessions *)

\* the rows of one session
RowsOf(table, sid) == { r \in table : r.session_id = sid }

\* C11: store operations are scoped by session id: a listing of session A
\* returns exactly the messages appended under A since A was last cleared, as
\* many as A has rows, and an append or a clear on session A leaves the rows
\* and the message sequence of every other session as they were.
C11_SessionScoped ==
    [][ \A sid \in SessionIds :
          /\ StoreList(sid)
                => /\ listing'[sid].result = listing[sid].appended
                   /\ Len(listing'[sid].result) = Cardinality(RowsOf(db, sid))
          /\ ((\E msg \in StoreMessages : StoreAdd(sid, msg)) \/ StoreClear(sid))
                => \A other \in SessionIds \ {sid} :
                      /\ RowsOf(db', other) = RowsOf(db, other)
                      /\ get_messages(db', other) = get_messages(db, other)
      ]_vars

\* one session listed with its own two messages while the other session, which
\* had rows, has just been cleared
C11_Witness ==
    \E sid \in SessionIds : \E other \in SessionIds \ {sid} :
        /\ listing[sid].last = "list"
        /\ Len(listing[sid].result) = 2
        /\ listing[sid].result = listing[sid].appended
        /\ listing[other].last = "clear"
        /\ RowsOf(db, other) = {}
        /\ seq > Cardinality(db)

-----------------------------------------------------------------------------
(* C12 : the transmission envelope of returned texts *)

COMPLIANCE_HEADING == "**SECURITY COMPLIANCE NOTIFICATION**"

END_MARKER == "**TRANSMISSION END**"

\* part occurs in text; a position is compared in full only where the first
\* character agrees
Includes(text, part) ==
    LET n == Len(part)
        c == SubSeq(part, 1, 1)
    IN  \/ n = 0
        \/ \E i \in 1..(Len(text) - n + 1) :
              SubSeq(text, i, i) = c /\ SubSeq(text, i, i + n - 1) = part

\* part occurs in text; the positions are tried from the last one backwards
IncludesFromEnd(text, part) ==
    LET n == Len(part)
        c == SubSeq(part, 1, 1)
        last == Len(text) - n + 1
    IN  \/ n = 0
        \/ \E k \in 0..(last - 1) :
              /\ SubSeq(text, last - k, last - k) = c
              /\ SubSeq(text, last - k, last - k + n - 1) = part

\* the text holds the three fixed parts of the envelope
HasEnvelope(text) ==
    /\ Includes(text, START_MARKER)
    /\ IncludesFromEnd(text, COMPLIANCE_HEADING)
    /\ IncludesFromEnd(text, END_MARKER)

\* the generator's text went through the formatter unchanged
PassedThrough(a) ==
    /\ turn[a].outcome = "answered"
    /\ Contains(frame[a].response, START_MARKER)

\* C12 as stated: every text get_response returns, a generator output
\* passed through unchanged included, contains at its return the start marker, the security
\* compliance notification block and the end marker.
C12_Original ==
    [][ \A a \in Assistants :
          (pc[a] # "done" /\ pc'[a] = "done") => HasEnvelope(ret'[a])
      ]_vars

\* C12 amended: every denial, the degraded response and every response the
\* formatter wrapped contain the start marker, the security compliance
\* notification block and the end marker; a generator output that is passed
\* through unchanged is returned as it is and is only known to contain the
\* start marker.
C12_Envelope ==
    [][ \A a \in Assistants :
          (pc[a] # "done" /\ pc'[a] = "done")
              => IF turn'[a].outcome = "answered" /\ Contains(frame'[a].response, START_MARKER)
                 THEN /\ ret'[a] = frame'[a].response
                      /\ Contains(ret'[a], START_MARKER)
                 ELSE /\ turn'[a].outcome \in {"denied", "degraded", "answered"}
                      /\ HasEnvelope(ret'[a])
      ]_vars

\* a wrapped answer with all three parts has been returned
C12_Witness ==
    \E a \in Assistants :
        /\ pc[a] = "done"
        /\ turn[a].outcome = "answered"
        /\ ~ PassedThrough(a)
        /\ ret[a] # frame[a].response
        /\ HasEnvelope(ret[a])

-----------------------------------------------------------------------------
(* C13 : clearance levels outside the table, missing fields *)

\* the employee record has no clearance level, or one that is not a tier
UnrecognizedLevel(emp) ==
    "clearance_level" \notin DOMAIN emp \/ emp["clearance_level"] \notin 1..5

\* the same record with the field set to the value
WithField(emp, field, value) ==
    [ k \in DOMAIN emp \cup {field} |-> IF k = field THEN value ELSE emp[k] ]

\* C13: for an actor whose clearance level is missing or not one of 1..5 the
\* guard decides every query, and names the same denial category, as it does
\* for the same actor at level 1, the retrieval breadth is 2 and the directive
\* block is tier 1's text; for an actor without a facility-access flag the
\* guard answers every query as it does for the same actor with the flag false.
C13_FallbackToTier1 ==
    /\ UnrecognizedLevel(gEmp)
          => /\ gSecurity.permissions = SCL_PERMISSIONS[1]
             /\ get_retrieval_k(gSecurity) = 2
             /\ get_dynamic_system_instruction(gSecurity)
                   = SCL_INSTRUCTION_1 \o LocationReminder(gSecurity.location)
             /\ gChecked
                   => LET tier1 == check_query_permission(
                                       SecurityGuardrails(WithField(gEmp, "clearance_level", 1)),
                                       gQuery, hashseed)
                      IN  /\ gResult[1] = tier1[1]
                          /\ CategoryOf(gResult[2]) = CategoryOf(tier1[2])
    /\ "has_facility_access" \notin DOMAIN gEmp
          => /\ gSecurity.has_facility_access = FALSE
             /\ gChecked
                   => gResult = check_query_permission(
                                    SecurityGuardrails(WithField(gEmp, "has_facility_access", FALSE)),
                                    gQuery, hashseed)

\* a level above the table, no facility flag: a tier-1 keyword is denied for
\* clearance
C13_Witness ==
    /\ gChecked
    /\ "clearance_level" \in DOMAIN gEmp /\ gEmp["clearance_level"] > 5
    /\ "has_facility_access" \notin DOMAIN gEmp
    /\ get_retrieval_k(gSecurity) = 2
    /\ HasTerm(<<"secret">>, gQuery)
    /\ CategoryOf(gResult[2]) = "clearance"

-----------------------------------------------------------------------------
(* C14 : the forbidden-keyword sets of the clearance policy table *)

\* C14: in the clearance policy table the forbidden-keyword set of a higher
\* level is a subset of the set of every lower level, and the set of level 5
\* is empty; the guard the actor is given holds the set of the actor's tier.
C14_ForbiddenSetsNested ==
    /\ \A l1 \in 1..5 : \A l2 \in 1..5 : l1 < l2 => ForbiddenAt(l2) \subseteq ForbiddenAt(l1)
    /\ ForbiddenAt(5) = {}
    /\ Elems(gSecurity.permissions.restricted_keywords) = ForbiddenAt(TierOf(gEmp))

\* a level-3 actor is allowed a query with a keyword that levels 1 and 2
\* forbid, while keywords stay forbidden at level 4
C14_Witness ==
    /\ gChecked
    /\ TierOf(gEmp) = 3 /\ "clearance_level" \in DOMAIN gEmp
    /\ HasTerm(<<"outbreak">>, gQuery)
    /\ "outbreak" \in ForbiddenAt(2) \ ForbiddenAt(3)
    /\ ForbiddenAt(4) # {}
    /\ ~ Denied(gResult)

-----------------------------------------------------------------------------
(* C15 : retrieval breadth *)

\* get_retrieval_k of a guard made for the clearance level
BreadthAt(level) == get_retrieval_k(SecurityGuardrails([ clearance_level |-> level ]))

\* C15: get_retrieval_k is 2, 3, 4, 5, 10 at levels 1..5, hence non-decreasing
\* in the clearance level, and whenever the retriever has been called in a
\* turn, the k it was made with is get_retrieval_k of the actor's level.
C15_RetrievalBreadth ==
    /\ <<BreadthAt(1), BreadthAt(2), BreadthAt(3), BreadthAt(4), BreadthAt(5)>> = <<2, 3, 4, 5, 10>>
    /\ \A l1 \in 1..5 : \A l2 \in 1..5 : l1 <= l2 => BreadthAt(l1) <= BreadthAt(l2)
    /\ \A a \in Assistants :
          /\ turn[a].retriever_calls > 0
                => /\ turn[a].search_k = <<2, 3, 4, 5, 10>>[employee[a].clearance_level]
                   /\ turn[a].search_k = BreadthAt(employee[a].clearance_level)
          /\ turn[a].retriever_calls = 0 => turn[a].search_k = 0

\* both actors have had the store searched, one with k = 2 and one with k = 10
C15_Witness ==
    /\ \A a \in Assistants : turn[a].retriever_calls = 1 /\ turn[a].retrieval # "raised"
    /\ \E a \in Assistants : turn[a].search_k = 2
    /\ \E a \in Assistants : turn[a].search_k = 10

-----------------------------------------------------------------------------
(* The pipeline over a conversation store whose SQLite operations can fail;
   the generator answers and there is no document store *)

\* add_message("human", ...) on the denial branch: sqlite3.Error is caught and logged
DenySaveHumanFails(a) ==
    /\ pc[a] = "deny_save_human"
    /\ pc' = [pc EXCEPT ![a] = "deny_save_ai"]
    /\ turn' = [turn EXCEPT ![a].append_errors = @ + 1]
    /\ UNCHANGED <<hashseed, vector_store, employee, security, db, seq, frame, ret, turns,
                   listing, guardVars>>

\* add_message("ai", denial_message) fails the same way; return denial_message
DenySaveAiFails(a) ==
    /\ pc[a] = "deny_save_ai"
    /\ pc' = [pc EXCEPT ![a] = "done"]
    /\ ret' = [ret EXCEPT ![a] = frame[a].denial_message]
    /\ turn' = [turn EXCEPT ![a].outcome = "denied", ![a].append_errors = @ + 1]
    /\ UNCHANGED <<hashseed, vector_store, employee, security, db, seq, frame, turns,
                   listing, guardVars>>

\* STEP 4 with get_messages failing: it returns [], chain.invoke returns text
GenerateListFails(a, text) ==
    /\ pc[a] = "generate"
    /\ text \in GenOutputs
    /\ frame' = [frame EXCEPT ![a].chat_history = <<>>, ![a].response = text]
    /\ turn' = [turn EXCEPT ![a].generator_calls = @ + 1, ![a].list_error = TRUE]
    /\ pc' = [pc EXCEPT ![a] = "format"]
    /\ UNCHANGED <<hashseed, vector_store, employee, security, db, seq, ret, turns,
                   listing, guardVars>>

\* slip: add_message lets sqlite3.Error out, it reaches the except branch of get_response
SaveHumanFails_Raises(a) ==
    /\ pc[a] = "save_human"
    /\ pc' = [pc EXCEPT ![a] = "except"]
    /\ turn' = [turn EXCEPT ![a].append_errors = @ + 1, ![a].raised = "store"]
    /\ UNCHANGED <<hashseed, vector_store, employee, security, db, seq, frame, ret, turns,
                   listing, guardVars>>

\* STEP 6, add_message("human", user_input): sqlite3.Error is caught and logged
SaveHumanFails(a) ==
    /\ pc[a] = "save_human"
    /\ pc' = [pc EXCEPT ![a] = "save_ai"]
    /\ turn' = [turn EXCEPT ![a].append_errors = @ + 1]
    /\ UNCHANGED <<hashseed, vector_store, employee, security, db, seq, frame, ret, turns,
                   listing, guardVars>>

\* STEP 6, add_message("ai", formatted_response) fails; return formatted_response
SaveAiFails(a) ==
    /\ pc[a] = "save_ai"
    /\ pc' = [pc EXCEPT ![a] = "done"]
    /\ ret' = [ret EXCEPT ![a] = frame[a].formatted_response]
    /\ turn' = [turn EXCEPT ![a].outcome = "answered", ![a].append_errors = @ + 1]
    /\ UNCHANGED <<hashseed, vector_store, employee, security, db, seq, frame, turns,
                   listing, guardVars>>

\* clear_history with the DELETE failing: nothing is removed; the listing
\* record of the session keeps what the session held at that moment
ClearHistoryFails(a) ==
    /\ pc[a] = "idle"
    /\ listing' = [listing EXCEPT ![Sid(a)].last = "clear_error",
                                  ![Sid(a)].result = get_messages(db, Sid(a))]
    /\ UNCHANGED <<hashseed, db, seq, assistantVars, guardVars>>

\* the sessions driven over the failing store: one, since a session neither
\* reads nor writes the rows of another
FaultySessions == {"a1"}

NextFaulty ==
    \E a \in FaultySessions :
        \/ \E q \in PipelineQueries : get_response(a, q)
        \/ SecurityPreCheck(a)
        \/ DenySaveHuman(a)
        \/ DenySaveHumanFails(a)
        \/ DenySaveAi(a)
        \/ DenySaveAiFails(a)
        \/ RetrieveNoStore(a)
        \/ Compose(a)
        \/ \E text \in GenOutputs : Generate(a, text)
        \/ \E text \in GenOutputs : GenerateListFails(a, text)
        \/ Format(a)
        \/ SaveHuman(a)
        \/ SaveHumanFails(a)
        \/ SaveAi(a)
        \/ SaveAiFails(a)
        \/ Returned(a)
        \/ ClearHistoryFails(a)

InitFaulty ==
    /\ hashseed = 0
    /\ InitStore
    /\ InitAssistants
    /\ vector_store = "None"
    /\ InitProbe

SpecFaulty == InitFaulty /\ [][NextFaulty]_vars

-----------------------------------------------------------------------------
(* C16 : storage failures *)

IsPrefix(s, t) == Len(s) <= Len(t) /\ SubSeq(t, 1, Len(s)) = s

\* C16: with the conversation store failing on any of its operations, no
\* exception reaches the except branch of get_response and the call returns
\* the guard's denial or the formatted generator text; every failed append
\* left the session log as it was (the log grew by the messages whose append
\* succeeded, in order), a failed listing gave the generator an empty history,
\* and a failed clear removed nothing.
C16_StoreFailureTolerated ==
    \A a \in FaultySessions :
        /\ pc[a] # "except"
        /\ pc[a] = "done"
              => /\ IF GuardDenies(a)
                    THEN turn[a].outcome = "denied" /\ ret[a] = Verdict(a)[2]
                    ELSE /\ turn[a].outcome = "answered"
                         /\ frame[a].response \in GenOutputs
                         /\ ret[a] = format_transmission_response(employee[a], security[a],
                                                                  frame[a].response)
                 /\ IsPrefix(turn[a].log0, Log(a))
                 /\ Len(Log(a)) = Len(turn[a].log0) + 2 - turn[a].append_errors
                 /\ SubSeq(Log(a), Len(turn[a].log0) + 1, Len(Log(a)))
                        \in { <<>>, << Human(frame[a].user_input) >>, << Ai(ret[a]) >>,
                              << Human(frame[a].user_input), Ai(ret[a]) >> }
                 /\ turn[a].list_error => frame[a].chat_history = <<>>
        /\ listing[Sid(a)].last = "clear_error" => IsPrefix(listing[Sid(a)].result, Log(a))

\* after a clear that failed on a session with messages, a turn whose listing
\* and whose first append failed still returned the formatted answer and saved
\* it
C16_Witness ==
    \E a \in FaultySessions :
        /\ pc[a] = "done" /\ turn[a].outcome = "answered"
        /\ turn[a].list_error /\ turn[a].append_errors = 1
        /\ turn[a].log0 # <<>> /\ frame[a].chat_history = <<>>
        /\ listing[Sid(a)].last = "clear_error" /\ listing[Sid(a)].result = turn[a].log0
        /\ Log(a) = turn[a].log0 \o << Ai(ret[a]) >>
        /\ ret[a] = format_transmission_response(employee[a], security[a], frame[a].response)

-----------------------------------------------------------------------------
(* C17 : the order of the steps of an allowed turn *)

\* C17: in every step of every call, the retriever is called only after the
\* guard has allowed the query and before anything else of the turn has
\* happened; the generator is called only after retrieval has returned its
\* text and the system instructions have been composed from it; and in an
\* allowed turn a message is written to the session log only after the
\* generator has returned and its text has been formatted.
C17_StepOrder ==
    [][ \A a \in Assistants :
          /\ turn'[a].retriever_calls > turn[a].retriever_calls
                => /\ pc[a] = "retrieve"
                   /\ ~ GuardDenies(a)
                   /\ turn[a].retrieval = "" /\ turn[a].generator_calls = 0
                   /\ frame[a].system_prompt = "" /\ frame[a].response = ""
                   /\ Log(a) = turn[a].log0
          /\ frame'[a].system_prompt \notin {"", frame[a].system_prompt}
                => /\ turn[a].retrieval # "" /\ turn[a].generator_calls = 0
                   /\ frame'[a].retrieved_policy_information = frame[a].retrieved_policy_information
                   /\ Includes(frame'[a].system_prompt, frame[a].retrieved_policy_information)
          /\ turn'[a].generator_calls > turn[a].generator_calls
                => /\ turn[a].retrieval # ""
                   /\ frame[a].retrieved_policy_information # ""
                   /\ frame[a].system_prompt # ""
                   /\ frame[a].formatted_response = ""
                   /\ Log(a) = turn[a].log0
          /\ (pc[a] \notin {"idle", "check"} /\ frame[a].denial_message = ""
                  /\ db' # db /\ get_messages(db', Sid(a)) # Log(a))
                => /\ turn[a].generator_calls = 1
                   /\ frame[a].response \in GenOutputs
                   /\ frame[a].formatted_response
                         = format_transmission_response(employee[a], security[a], frame[a].response)
      ]_vars

\* an allowed turn that went through the retriever and the generator and was
\* saved
C17_Witness ==
    \E a \in Assistants :
        /\ pc[a] = "done" /\ turn[a].outcome = "answered"
        /\ turn[a].retriever_calls = 1 /\ turn[a].retrieval = "docs"
        /\ turn[a].generator_calls = 1
        /\ Contains(frame[a].system_prompt, frame[a].retrieved_policy_information)
        /\ AppendedPair(a, frame[a].formatted_response)

-----------------------------------------------------------------------------
(* C18 : the history the generator is called with *)

\* the listed messages as the chat messages the prompt takes
AsChatMessages(messages) ==
    [ i \in 1..Len(messages) |->
        [ type    |-> CASE messages[i].role = "human" -> "HumanMessage"
                        [] messages[i].role = "ai"    -> "AIMessage"
                        [] OTHER                      -> "dropped",
          content |-> messages[i].content ] ]

\* C18: once the generator has been invoked in a turn, the history it was
\* given is the list of the messages the store listed for the session when the
\* turn began, one chat message per listed message, same order, same text,
\* human and ai kept apart; the query of the turn is not among them: it is
\* still unsaved right after the invocation and the history is as long as
\* the listing was.
C18_GeneratorGetsPriorHistory ==
    \A a \in Assistants :
        turn[a].generator_calls > 0
            => /\ turn[a].generator_calls = 1
               /\ frame[a].chat_history = AsChatMessages(turn[a].log0)
               /\ Len(frame[a].chat_history) = Len(turn[a].log0)
               /\ pc[a] \in {"format", "except"} => Log(a) = turn[a].log0

\* the generator was handed the two messages of the turn before, and the
\* query of this turn is a new one
C18_Witness ==
    \E a \in Assistants :
        /\ pc[a] = "format" /\ turn[a].generator_calls = 1
        /\ Len(turn[a].log0) = 2
        /\ frame[a].chat_history[1].type = "HumanMessage"
        /\ frame[a].chat_history[2].type = "AIMessage"
        /\ frame[a].chat_history[1].content = turn[a].log0[1].content
        /\ frame[a].chat_history[1].content # frame[a].user_input

-----------------------------------------------------------------------------
(* C19 : what a denial text carries *)

\* the text names a reference of the logged attempt
HasReferenceId(message) == Contains(message, "Ref: ")

\* the text tells the actor what to do to obtain access
HasRemediation(message) ==
    Contains(message, "Required Action:") \/ Contains(message, "Submit Form")

\* C19: every denial the guard produces, whether for confidential vocabulary,
\* for a facility term or for clearance, contains a reference id and
\* remediation guidance.
C19_DenialHasRefAndRemediation ==
    (gChecked /\ Denied(gResult))
        => /\ CategoryOf(gResult[2]) \in {"confidential", "facility", "clearance"}
           /\ HasReferenceId(gResult[2])
           /\ HasRemediation(gResult[2])

-----------------------------------------------------------------------------
(* C20 : what the context retriever returns *)

\* one passage under its source label
Labelled(doc) ==
    "[Source: "
        \o (IF "source" \in DOMAIN doc.metadata THEN doc.metadata["source"] ELSE "Unknown")
        \o "]\n" \o doc.page_content

\* the first n passages, each under its label, with the delimiter between
\* neighbours
RECURSIVE LabelledUpTo(_, _)
LabelledUpTo(docs, n) ==
    IF n = 1 THEN Labelled(docs[1])
    ELSE LabelledUpTo(docs, n - 1) \o "\n\n---\n\n" \o Labelled(docs[n])

\* C20: the retrieval step always hands a text to STEP 3, never an exception
\* and never the empty string: a raising document store gives the
\* "temporarily unavailable" sentence, no passages give the "no relevant
\* policy information found" sentence, and passages give every passage under
\* its source label, in the order the store returned them, separated by the
\* delimiter.
C20_RetrieverTotal ==
    [][ \A a \in Assistants :
          (pc[a] = "retrieve" /\ pc'[a] # "retrieve")
              => /\ pc'[a] = "compose"
                 /\ turn'[a].raised = ""
                 /\ frame'[a].retrieved_policy_information # ""
                 /\ RetrieveRaises(a)
                       => frame'[a].retrieved_policy_information
                             = "Policy database temporarily unavailable. Please try again later."
                 /\ \A docs \in RetrieverResults(get_retrieval_k(security[a])) :
                       RetrieveDocs(a, docs)
                           => frame'[a].retrieved_policy_information
                                 = IF Len(docs) = 0
                                   THEN "No relevant policy information found within your clearance level."
                                   ELSE LabelledUpTo(docs, Len(docs))
      ]_vars

\* two passages came back, the second without a source entry: both are in the
\* text, in order, with the delimiter between them
C20_Witness ==
    \E a \in Assistants :
        /\ pc[a] = "compose" /\ turn[a].retrieval = "docs"
        /\ frame[a].retrieved_policy_information
              = "[Source: data/Umbrella_Employee_Handbook.pdf]\nHandbook passage 1"
                    \o "\n\n---\n\n" \o "[Source: Unknown]\nHandbook passage 2"

-----------------------------------------------------------------------------
(* C21 : what the guard's decision depends on *)

\* the fields of an employee record the claim lets the decision depend on
GatingFields == { "clearance_level", "has_facility_access" }

\* descriptive fields of an employee record, in three fillings
DisplayProfiles ==
    { NoEmployee,
      [ name |-> "Ada Wong", employee_id |-> "UC-0042", role |-> "Researcher",
        department |-> "Virology", location |-> "Umbrella Asia",
        location_security_level |-> "GAMMA" ],
      [ name |-> "Albert Wesker", employee_id |-> "UC-0001", role |-> "Director",
        department |-> "Security", location |-> "Raccoon City HQ",
        location_security_level |-> "ALPHA" ] }

\* the record with the clearance level and facility flag of emp (present or
\* missing as in emp) and every other field taken from the profile
Redescribed(emp, profile) ==
    LET kept == DOMAIN emp \cap GatingFields
    IN  [ k \in kept \cup (DOMAIN profile \ GatingFields) |->
            IF k \in kept THEN emp[k] ELSE profile[k] ]

\* C21: the guard's decision and denial category depend only on the query,
\* the clearance level and the facility flag: when a guard has answered a
\* query, the guard of every actor with the same clearance level and facility
\* flag and another name, id, role, department and location answers the same
\* query with the same decision and the same category.
C21_DisplayIndependent ==
    [][ (~ gChecked /\ gChecked')
          => \A profile \in DisplayProfiles :
                LET other == check_query_permission(
                                 SecurityGuardrails(Redescribed(gEmp, profile)),
                                 gQuery', hashseed)
                IN  /\ other[1] = gResult'[1]
                    /\ \/ other[2] = gResult'[2]
                       \/ CategoryOf(other[2]) = CategoryOf(gResult'[2])
      ]_vars

\* Jill at Raccoon City HQ without the facility flag is denied a facility
\* query, and so is the researcher at Umbrella Asia with the same level and flag
C21_Witness ==
    /\ gChecked
    /\ "name" \in DOMAIN gEmp /\ gEmp["name"] = "Jill"
    /\ "clearance_level" \in DOMAIN gEmp /\ gEmp["clearance_level"] = 4
    /\ "has_facility_access" \in DOMAIN gEmp /\ ~ gEmp["has_facility_access"]
    /\ CategoryOf(gResult[2]) = "facility"
    /\ \E profile \in DisplayProfiles :
          /\ "name" \in DOMAIN profile /\ profile["name"] = "Ada Wong"
          /\ CategoryOf(check_query_permission(
                            SecurityGuardrails(Redescribed(gEmp, profile)),
                            gQuery, hashseed)[2]) = "facility"

-----------------------------------------------------------------------------
(* C22 : letter case and word boundaries in keyword matching *)

\* the capital of a letter; the capital of the dotless i is I
CapitalOf(c) ==
    IF c = "!" THEN "I"
    ELSE IF \E i \in 1..Len(LOWERCASE) : SubSeq(LOWERCASE, i, i) = c
    THEN LET i == CHOOSE j \in 1..Len(LOWERCASE) : SubSeq(LOWERCASE, j, j) = c
         IN  SubSeq(UPPERCASE, i, i)
    ELSE c

RECURSIVE CapitalsFrom(_, _)
CapitalsFrom(s, i) ==
    IF i > Len(s) THEN "" ELSE CapitalOf(SubSeq(s, i, i)) \o CapitalsFrom(s, i + 1)

\* the term written in capitals
Capitals(term) == CapitalsFrom(term, 1)

\* the term stands in the query, inside a longer word or not, as the
\* vocabulary writes it or in capitals
OccursInSomeCase(term, query) == Contains(query, term) \/ Contains(query, Capitals(term))

\* C22: a vocabulary term triggers its rule when it occurs in the query in any
\* letter case, also as part of a longer word: a confidential term makes the
\* answer the confidential denial, a facility term gets an actor without the
\* facility flag denied, and a keyword forbidden at the actor's tier gets the
\* actor denied.
C22_AnyCaseSubstring ==
    gChecked =>
        /\ \A term \in Elems(CONFIDENTIAL_KEYWORDS) :
              OccursInSomeCase(term, gQuery) => gResult = <<FALSE, confidential_data>>
        /\ \A term \in Elems(FACILITY_KEYWORDS) :
              (OccursInSomeCase(term, gQuery) /\ ~ HasFacilityFlag(gEmp)) => Denied(gResult)
        /\ \A term \in ForbiddenAt(TierOf(gEmp)) :
              OccursInSomeCase(term, gQuery) => Denied(gResult)

-----------------------------------------------------------------------------
(* C23 : the response formatter *)

\* the text opens with the start marker, closes with the end marker and
\* carries the body between the protocol-response heading and the compliance
\* heading
WrapsBody(text, body) ==
    /\ SubSeq(text, 1, Len(START_MARKER)) = START_MARKER
    /\ SubSeq(text, Len(text) - Len(END_MARKER) + 1, Len(text)) = END_MARKER
    /\ Includes(text, "**PROTOCOL RESPONSE**: \n" \o body \o "\n\n" \o COMPLIANCE_HEADING)

\* C23: once the formatter has run in a turn, its result is the generator's
\* text itself if that text contains the start marker, and otherwise the
\* standard envelope around that text; and the formatter applied to its own
\* result returns that result.
C23_FormatterIdempotent ==
    \A a \in Assistants :
        pc[a] = "save_human"
            => /\ IF Contains(frame[a].response, START_MARKER)
                  THEN frame[a].formatted_response = frame[a].response
                  ELSE /\ frame[a].formatted_response # frame[a].response
                       /\ WrapsBody(frame[a].formatted_response, frame[a].response)
               /\ format_transmission_response(employee[a], security[a],
                                               frame[a].formatted_response)
                     = frame[a].formatted_response

\* both cases have happened at once: one assistant holds a wrapped plain text,
\* the other a text that came with the start marker and was left as it was
C23_Witness ==
    \E a, b \in Assistants :
        /\ pc[a] = "save_human" /\ pc[b] = "save_human"
        /\ ~ Contains(frame[a].response, START_MARKER)
        /\ WrapsBody(frame[a].formatted_response, frame[a].response)
        /\ Contains(frame[b].response, START_MARKER)
        /\ frame[b].formatted_response = frame[b].response

-----------------------------------------------------------------------------
(* C24 : the composed system instructions *)

\* the base template with the actor's profile and the retrieved text filled in
BaseFilled(emp, retrieved) ==
    SYSTEM_PROMPT(format_employee_information(emp, SecurityGuardrails(emp)), retrieved)

\* the directive block of the actor's clearance, tier 1's for any other level
DirectiveBlock(emp) ==
    CASE TierOf(emp) = 1 -> SCL_INSTRUCTION_1
      [] TierOf(emp) = 2 -> SCL_INSTRUCTION_2
      [] TierOf(emp) = 3 -> SCL_INSTRUCTION_3
      [] TierOf(emp) = 4 -> SCL_INSTRUCTION_4
      [] TierOf(emp) = 5 -> SCL_INSTRUCTION_5

\* the reminder block of the actor's location, empty for any other location
ReminderBlock(emp) ==
    LET location == IF "location" \in DOMAIN emp THEN emp["location"] ELSE ""
    IN  CASE location = "Raccoon City HQ"        -> REMINDER_HQ
          [] location = "Umbrella Europe"        -> REMINDER_EUROPE
          [] location = "Umbrella Asia"          -> REMINDER_ASIA
          [] location = "Umbrella North America" -> REMINDER_NORTH_AMERICA
          [] location = "Umbrella South America" -> REMINDER_SOUTH_AMERICA
          [] OTHER                               -> ""

\* C24 as stated: the composed system instructions are the base template with
\* profile and retrieved text filled in, followed at once by the directive
\* block of the actor's clearance (tier 1's for an unrecognized level),
\* followed by the reminder block of the actor's location (empty for an
\* unrecognized location).
C24_Original ==
    gPrompt # ""
        => gPrompt = BaseFilled(gEmp, gRetrieved) \o DirectiveBlock(gEmp) \o ReminderBlock(gEmp)

\* C24 amended: the composed system instructions are the base template with
\* profile and retrieved text filled in, then a line break, then the
\* directive block of the actor's clearance (tier 1's for an unrecognized
\* level), then the reminder block of the actor's location (empty for an
\* unrecognized location).
C24_ComposedInOrder ==
    gPrompt # ""
        => gPrompt = BaseFilled(gEmp, gRetrieved) \o "\n"
                        \o DirectiveBlock(gEmp) \o ReminderBlock(gEmp)

\* composed for a level above the table at a facility without a reminder:
\* the text ends with tier 1's block
C24_Witness ==
    /\ gPrompt # ""
    /\ "clearance_level" \in DOMAIN gEmp /\ gEmp["clearance_level"] > 5
    /\ "location" \in DOMAIN gEmp /\ gEmp["location"] = "Arklay Laboratory"
    /\ gRetrieved # NO_DOCS_TEXT
    /\ gPrompt = BaseFilled(gEmp, gRetrieved) \o "\n" \o SCL_INSTRUCTION_1

-----------------------------------------------------------------------------
(* C25 : a session's log only grows *)

\* the step is an explicit clear of the session
ClearsSession(sid) ==
    \/ StoreClear(sid)
    \/ \E a \in Assistants : Sid(a) = sid /\ clear_history(a)

\* C25: in every step that is not an explicit clear of the session (a step of
\* a get_response turn of this or another session, an append, a listing, a
\* clear of another session), the session's message sequence before the step
\* is a prefix of its sequence after the step: no message is changed, moved
\* or removed.
C25_AppendOnly ==
    [][ \A sid \in SessionIds :
          (db' # db /\ ~ ClearsSession(sid))
              => IsPrefix(get_messages(db, sid), get_messages(db', sid))
      ]_vars

\* a second turn has been saved behind the first one of the same session
C25_Witness ==
    \E a \in Assistants :
        /\ pc[a] = "done" /\ Len(turn[a].log0) = 2
        /\ Len(Log(a)) = Len(turn[a].log0) + 2
        /\ IsPrefix(turn[a].log0, Log(a))

-----------------------------------------------------------------------------
(* C26 : decisions are monotone in the clearance level *)

\* the guard's decision on the query for the same actor at another level
AllowedAt(emp, level, query, salt) ==
    check_query_permission(SecurityGuardrails(WithField(emp, "clearance_level", level)),
                           query, salt)[1]

\* C26: when the guard allows a query for an actor of level L in 1..5, it
\* allows the same query for the same actor (same facility flag) at every
\* level from L to 5.
C26_MonotoneInClearance ==
    [][ (/\ ~ gChecked /\ gChecked'
         /\ "clearance_level" \in DOMAIN gEmp /\ gEmp["clearance_level"] \in 1..5
         /\ gResult'[1])
          => \A higher \in gEmp["clearance_level"]..5 :
                AllowedAt(gEmp, higher, gQuery', hashseed)
      ]_vars

\* a query with a keyword that tiers 1 and 2 forbid is allowed at level 3
C26_Witness ==
    /\ gChecked
    /\ "clearance_level" \in DOMAIN gEmp /\ gEmp["clearance_level"] = 3
    /\ HasTerm(<<"outbreak">>, gQuery)
    /\ gResult[1]
    /\ ~ AllowedAt(gEmp, 2, gQuery, hashseed)
    /\ AllowedAt(gEmp, 4, gQuery, hashseed)

-----------------------------------------------------------------------------
(* C27 : the required level a clearance denial reports *)

\* C27: when an actor of level L in 1..5 is denied for clearance and the
\* denial reports the required level R, then R > L and the same query from
\* the same actor at level R (same facility flag) is not denied for clearance.
C27_RequiredLevelSufficient ==
    (/\ gChecked
     /\ "clearance_level" \in DOMAIN gEmp /\ gEmp["clearance_level"] \in 1..5
     /\ CategoryOf(gResult[2]) = "clearance")
        => \A r \in 1..5 :
              ReportsRequired(gResult[2], r)
                  => /\ r > gEmp["clearance_level"]
                     /\ CategoryOf(check_query_permission(
                                       SecurityGuardrails(WithField(gEmp, "clearance_level", r)),
                                       gQuery, hashseed)[2]) # "clearance"


-----------------------------------------------------------------------------
(* C28 : the shape of a session log *)

\* human, ai, human, ai, ... in pairs
Alternates(log) ==
    /\ Len(log) % 2 = 0
    /\ \A i \in 1..Len(log) : log[i].role = (IF i % 2 = 1 THEN "human" ELSE "ai")

\* C28: with the turns of a session one after the other and the store not
\* failing, whenever no call of the session is under way (before a call, and
\* when a call has returned) the session log has even length and its roles
\* alternate human, ai, human, ai; a call that appended has put its query and
\* then the text it returns at the end of the log, on top of the log it found,
\* and a call that did not append (the degraded one) left the log as it was.
C28_LogAlternates ==
    \A a \in Assistants :
        pc[a] \in {"idle", "done"}
            => /\ Alternates(Log(a))
               /\ pc[a] = "done"
                    => \/ /\ turn[a].outcome = "degraded"
                          /\ Log(a) = turn[a].log0
                       \/ /\ turn[a].outcome \in {"denied", "answered"}
                          /\ Len(Log(a)) = Len(turn[a].log0) + 2
                          /\ SubSeq(Log(a), 1, Len(turn[a].log0)) = turn[a].log0
                          /\ Log(a)[Len(Log(a)) - 1] = Human(frame[a].user_input)
                          /\ Log(a)[Len(Log(a))].content = ret[a]

\* the second call of a session has returned: four messages, the last pair
\* being this call's query and its answer, the first pair another query's
C28_Witness ==
    \E a \in Assistants :
        /\ pc[a] = "done" /\ turn[a].outcome = "answered"
        /\ Len(Log(a)) = 4
        /\ Log(a)[3].content = frame[a].user_input
        /\ Log(a)[1].content # Log(a)[3].content
        /\ Log(a)[4].content = ret[a]
        /\ Log(a)[2].content # ret[a]

-----------------------------------------------------------------------------
(* C29 : two sessions, store operations interleaved *)

\* what the session log of a call is when the call runs alone: the log it
\* found, then its query once that is saved, then its answer
LogWhenAlone(a) ==
    CASE pc[a] \in {"deny_save_ai", "save_ai"}
            -> turn[a].log0 \o << Human(frame[a].user_input) >>
      [] pc[a] = "done" /\ turn[a].outcome \in {"denied", "answered"}
            -> turn[a].log0 \o << Human(frame[a].user_input), Ai(ret[a]) >>
      [] OTHER -> turn[a].log0

\* C29: with the steps of the calls of two different sessions interleaved in
\* any order and no lock taken, every step is the step of one session and
\* leaves the message sequence of the other session exactly as it was, and at
\* every point of a call the log of its session is what the call alone has made
\* of the log it found, whatever the other session did in between.
C29_SessionsIsolated ==
    [][ /\ \E a \in Assistants :
              \A b \in Assistants \ {a} :
                  /\ Sid(b) # Sid(a)
                  /\ pc'[b] = pc[b]
                  /\ get_messages(db', Sid(b)) = get_messages(db, Sid(b))
        /\ \A a \in Assistants : pc[a] # "idle" => Log(a) = LogWhenAlone(a) ]_vars

\* one session is between its two appends while the other session, which has
\* already written, has a call under way
C29_Witness ==
    \E a \in Assistants, b \in Assistants :
        /\ a # b
        /\ pc[a] = "save_ai"
        /\ pc[b] \notin {"idle", "done"}
        /\ Len(Log(a)) = 1
        /\ Len(Log(b)) >= 1

-----------------------------------------------------------------------------
(* C30 : the course of one call *)

\* the states of a turn, read off the position of the call:
\*   received     "check"            guarded      the position SecurityPreCheck leaves
\*   denied       "deny_save_human"  retrieving   "retrieve"
\*   composing    "compose"          generating   "generate"
\*   formatting   "format"           persisted    both appends made
TurnOrder ==
    { << "idle", "check" >>,
      << "check", "deny_save_human" >>, << "check", "retrieve" >>,
      << "deny_save_human", "deny_save_ai" >>, << "deny_save_ai", "done" >>,
      << "retrieve", "compose" >>, << "compose", "generate" >>,
      << "generate", "format" >>, << "format", "save_human" >>,
      << "save_human", "save_ai" >>, << "save_ai", "done" >>,
      << "done", "idle" >> }

\* the call has made both appends: the log it found, its query, its answer
Persisted(a) == Log(a) = turn[a].log0 \o << Human(frame[a].user_input), Ai(ret[a]) >>

\* every move of a call is one of the arrows of the turn's state machine
C30_FollowsTurnOrder ==
    [][ \A a \in Assistants : pc'[a] # pc[a] => << pc[a], pc'[a] >> \in TurnOrder ]_vars

\* every call that has begun returns a text
C30_Terminates ==
    \A a \in Assistants : (pc[a] = "check") ~> (pc[a] = "done" /\ ret[a] # "")

\* a call that has returned has made both appends
C30_ReturnedIsPersisted ==
    \A a \in Assistants : pc[a] = "done" => Persisted(a)

\* C30: every call moves along received -> guarded -> (denied | retrieving ->
\* composing -> generating -> formatting) -> persisted; with every call to the
\* retriever, the generator and the store returning or raising, every call of
\* get_response returns a response text; and every call that has returned has
\* reached the persisted state.
C30_TurnStateMachine ==
    /\ C30_FollowsTurnOrder
    /\ C30_Terminates
    /\ [] C30_ReturnedIsPersisted

\* the moves the code makes on top of those arrows: a raising generator (and
\* nothing else under a store that works) sends the call to the except branch,
\* which returns the degraded text
ExceptOrder == { << "generate", "except" >>, << "except", "done" >> }

\* what does hold: every call that has begun returns a text, along the arrows
\* of the state machine or through the except branch, and the calls that
\* return through the except branch are exactly those that are not persisted.
C30_TerminatesEitherWay ==
    /\ C30_Terminates
    /\ [][ \A a \in Assistants :
              pc'[a] # pc[a] => << pc[a], pc'[a] >> \in TurnOrder \cup ExceptOrder ]_vars
    /\ [] (\A a \in Assistants :
              pc[a] = "done" => (Persisted(a) <=> turn[a].outcome # "degraded"))
=============================================================================
